---------------------------- MODULE Spec2Model ----------------------------
(***************************************************************************)
(* hyparse: the decode of a HY-TEK .hy3 file by Hy3File                    *)
(* (src/hyparse/parser/hy3_file.py).  The constructor reads the lines,     *)
(* checks every line's checksum, and then runs five extraction passes      *)
(* over the same line list: meet info, teams, athletes, individual         *)
(* results, relay results.                                                 *)
(*                                                                         *)
(* A Python str is a sequence of one-character strings; a line is a str.   *)
(* An optional value (None, an unbound local, the empty dict that          *)
(* _extract_athletes starts current_team with) is the empty sequence, and  *)
(* a present value v is <<v>>.                                             *)
(***************************************************************************)
EXTENDS Integers, Sequences, FiniteSets, TLC

\* Longest body (the lines after the header lines) of an input file.
MaxBody == 3
\* The most lines of a line list given to the validator.
MaxLines == 2

Min(a, b) == IF a < b THEN a ELSE b
Max(a, b) == IF a > b THEN a ELSE b

None == << >>
Some(v) == << v >>

--------------------------------------------------------------------------
(* Python str primitives *)

Digits == << "0", "1", "2", "3", "4", "5", "6", "7", "8", "9" >>
Upper == << "A", "B", "C", "D", "E", "F", "G", "H", "I", "J", "K", "L", "M",
            "N", "O", "P", "Q", "R", "S", "T", "U", "V", "W", "X", "Y", "Z" >>

IndexIn(seq, c) == CHOOSE k \in 1..Len(seq) : seq[k] = c

\* ord(char): the code point of a character of the alphabet the inputs use.
ord(c) ==
    IF c = " " THEN 32
    ELSE IF c = "." THEN 46
    ELSE IF \E k \in 1..Len(Digits) : Digits[k] = c THEN 47 + IndexIn(Digits, c)
    ELSE 64 + IndexIn(Upper, c)

\* str(n) for n >= 0: the decimal digits, most significant first.
RECURSIVE str(_)
str(n) == IF n < 10 THEN << Digits[n + 1] >>
          ELSE str(n \div 10) \o << Digits[(n % 10) + 1] >>

\* s[a:b] for 0 <= a, 0 <= b: cut at the end of s, empty when a is beyond it.
Slice(s, a, b) == SubSeq(s, a + 1, Min(b, Len(s)))

\* s[:-2] and s[-2:].
DropLast2(s) == SubSeq(s, 1, Len(s) - 2)
Last2(s) == SubSeq(s, Max(1, Len(s) - 1), Len(s))

\* s[-k] for k >= 1 (the caller guarantees Len(s) >= k).
FromEnd(s, k) == s[Len(s) - k + 1]

\* s.startswith(p)
startswith(s, p) == Len(s) >= Len(p) /\ SubSeq(s, 1, Len(p)) = p

\* s.strip(): s from its first to its last character that is not a blank.
strip(s) ==
    LET inked == { k \in 1..Len(s) : s[k] # " " }
    IN  IF inked = {} THEN << >>
        ELSE SubSeq(s, CHOOSE k \in inked : \A m \in inked : k <= m,
                       CHOOSE k \in inked : \A m \in inked : m <= k)

\* line[a:b].strip()
Field(line, a, b) == strip(Slice(line, a, b))

\* line[k] is an IndexError when k is beyond the line.
HasIndex(line, k) == k < Len(line)
At(line, k) == line[k + 1]

--------------------------------------------------------------------------
(* Hy3File._calculate_checksum *)

\* sum(nums[lo..hi])
RECURSIVE SumRange(_, _, _)
SumRange(nums, lo, hi) ==
    IF lo > hi THEN 0
    ELSE IF lo = hi THEN nums[lo]
    ELSE LET mid == (lo + hi) \div 2
         IN  SumRange(nums, lo, mid) + SumRange(nums, mid + 1, hi)

_calculate_checksum(line) ==
    LET chars     == DropLast2(line)
        ord_chars == [k \in 1..Len(chars) |-> ord(chars[k])]
        \* the character at 0-based index k - 1 goes to odd or to even
        odd_sum   == SumRange([k \in 1..Len(chars) |->
                         IF (k - 1) % 2 = 1 THEN 2 * ord_chars[k] ELSE 0],
                         1, Len(chars))
        even_sum  == SumRange([k \in 1..Len(chars) |->
                         IF (k - 1) % 2 = 1 THEN 0 ELSE ord_chars[k]],
                         1, Len(chars))
        sum_val   == odd_sum + even_sum
        result    == sum_val \div 21
        sum2      == result + 205
        checksum1 == FromEnd(str(sum2), 1)
        checksum2 == FromEnd(str(sum2), 2)
    IN  << checksum1, checksum2 >>

--------------------------------------------------------------------------
(* The line parsers of Hy3File.  Each returns the entity or dict the       *)
(* method returns; the ...Raises operators give the exception the method   *)
(* ends with instead ("none" when it returns).                             *)

\* {**a, **b}
DictMerge(a, b) ==
    [k \in (DOMAIN a) \cup (DOMAIN b) |-> IF k \in DOMAIN b THEN b[k] ELSE a[k]]

_parse_team_infoRaises(line) ==
    IF Slice(line, 0, 2) # << "C", "1" >> THEN "ValueError" ELSE "none"

_parse_team_info(line) ==
    [ team_abbreviation |-> Field(line, 2, 7),
      full_team_name    |-> Field(line, 7, 37),
      team_short_name   |-> Field(line, 37, 53),
      team_lsc          |-> Field(line, 53, 55) ]

_parse_athlete_infoRaises(line) ==
    IF Slice(line, 0, 2) # << "D", "1" >> THEN "ValueError"
    ELSE IF ~HasIndex(line, 2) THEN "IndexError"
    ELSE "none"

\* current_team is the empty dict (None here) or a Team, which is truthy.
_parse_athlete_info(line, current_team) ==
    [ gender     |-> << At(line, 2) >>,
      mm_id      |-> Field(line, 3, 8),
      last_name  |-> Field(line, 8, 28),
      first_name |-> Field(line, 28, 48),
      nick_name  |-> Field(line, 48, 68),
      usas_id    |-> Field(line, 69, 85),
      team       |-> IF current_team # None
                     THEN Some(current_team[1].team_abbreviation)
                     ELSE None ]

_parse_event_entryRaises(line) ==
    IF ~startswith(line, << "E", "1" >>) THEN "ValueError"
    ELSE IF ~HasIndex(line, 21) THEN "IndexError"
    ELSE "none"

_parse_event_entry(line) ==
    [ mm_athlete_id |-> Field(line, 3, 8),
      event_no      |-> Field(line, 38, 42),
      stroke_code   |-> strip(<< At(line, 21) >>),
      distance      |-> Field(line, 15, 21),
      seed_time     |-> Field(line, 42, 50) ]

_parse_individual_resultRaises(line) ==
    IF ~startswith(line, << "E", "2" >>) THEN "ValueError"
    ELSE IF ~HasIndex(line, 2) \/ ~HasIndex(line, 11) THEN "IndexError"
    ELSE "none"

_parse_individual_result(line) ==
    [ round         |-> strip(<< At(line, 2) >>),
      time          |-> Field(line, 3, 11),
      course        |-> strip(<< At(line, 11) >>),
      heat          |-> Field(line, 20, 24),
      lane          |-> Field(line, 25, 27),
      heat_place    |-> Field(line, 26, 29),
      overall_place |-> Field(line, 29, 33),
      backup_time_1 |-> Field(line, 36, 44),
      backup_time_2 |-> Field(line, 45, 52),
      reaction_time |-> Field(line, 83, 87) ]

_parse_f1_lineRaises(line) ==
    IF ~startswith(line, << "F", "1" >>) THEN "ValueError"
    ELSE IF ~HasIndex(line, 7) \/ ~HasIndex(line, 12) \/ ~HasIndex(line, 21)
         THEN "IndexError"
    ELSE "none"

_parse_f1_line(line) ==
    [ team_abbr   |-> Field(line, 2, 6),
      relay_team  |-> << At(line, 7) >>,
      gender      |-> << At(line, 12) >>,
      distance    |-> Field(line, 17, 21),
      stroke_code |-> << At(line, 21) >>,
      event_no    |-> Field(line, 38, 42),
      seed_time   |-> Field(line, 43, 50) ]

_parse_f2_lineRaises(line) ==
    IF ~startswith(line, << "F", "2" >>) THEN "ValueError"
    ELSE IF ~HasIndex(line, 2) \/ ~HasIndex(line, 11) THEN "IndexError"
    ELSE "none"

_parse_f2_line(line) ==
    [ round          |-> strip(<< At(line, 2) >>),
      time           |-> Field(line, 3, 11),
      course         |-> << At(line, 11) >>,
      time_code      |-> Field(line, 12, 15),
      heat           |-> Field(line, 20, 24),
      lane           |-> Field(line, 25, 27),
      heat_place     |-> Field(line, 26, 29),
      overall_place  |-> Field(line, 29, 33),
      backup_time_1  |-> Field(line, 36, 44),
      backup_time_2  |-> Field(line, 44, 52),
      backup_time_3  |-> Field(line, 52, 60),
      touchpad_time  |-> Field(line, 65, 73),
      reaction_times |-> << Field(line, 83, 87), Field(line, 87, 92),
                            Field(line, 92, 97), Field(line, 97, 102) >> ]

_parse_f3_lineRaises(line) ==
    IF ~startswith(line, << "F", "3" >>) THEN "ValueError" ELSE "none"

\* A roster parse that leaves the blank slots out.
_parse_f3_lineFiltering(line) ==
    [ relay_athletes |->
        SelectSeq(<< Field(line, 3, 8), Field(line, 16, 21),
                     Field(line, 29, 34), Field(line, 42, 47) >>,
                  LAMBDA id : id # << >>) ]

_parse_f3_line(line) ==
    [ relay_athletes |-> << Field(line, 3, 8), Field(line, 16, 21),
                            Field(line, 29, 34), Field(line, 42, 47) >> ]

--------------------------------------------------------------------------
(* Hy3File._extract_meet_info: the last line of each header tag, then the  *)
(* MeetInfo built from the three.                                          *)

\* The loop's a1_line / b1_line / b2_line: the last line starting with tag,
\* or None when the loop never bound the local.
LastWithTag(lines, tag) ==
    LET at == { k \in 1..Len(lines) : startswith(lines[k], tag) }
    IN  IF at = {} THEN None
        ELSE Some(lines[CHOOSE k \in at : \A m \in at : m <= k])

\* The MeetInfo(...) call that ends the method; b2_line[98] is an index.
MeetInfoOf(a1_line, b1_line, b2_line) ==
    [ meet_name         |-> Field(b1_line, 2, 47),
      facility_name     |-> Field(b1_line, 47, 92),
      meet_start_date   |-> Field(b1_line, 92, 100),
      meet_end_date     |-> Field(b1_line, 100, 108),
      elevation         |-> Field(b1_line, 116, 121),
      course            |-> strip(<< At(b2_line, 98) >>),
      result_type       |-> Field(a1_line, 2, 4),
      mm_version        |-> Field(a1_line, 44, 58),
      date_file_created |-> Field(a1_line, 58, 68) ]

\* A MeetInfo built without a B2 line (course left empty): what a decode
\* that tolerated a missing B2 line would expose.
PartialMeetInfo(lines) ==
    LET a1_line == LastWithTag(lines, << "A", "1" >>)
        b1_line == LastWithTag(lines, << "B", "1" >>)
        b2_line == LastWithTag(lines, << "B", "2" >>)
    IN  IF a1_line = None \/ b1_line = None
        THEN [ exc |-> "UnboundLocalError", ret |-> None ]
        ELSE IF b2_line = None \/ ~HasIndex(b2_line[1], 98)
        THEN [ exc |-> "none",
               ret |-> Some(MeetInfoOf(a1_line[1], b1_line[1],
                                       [k \in 1..99 |-> " "])) ]
        ELSE [ exc |-> "none",
               ret |-> Some(MeetInfoOf(a1_line[1], b1_line[1], b2_line[1])) ]

\* exc: the exception the method ends with ("none": it returns ret).
_extract_meet_info(lines) ==
    LET a1_line == LastWithTag(lines, << "A", "1" >>)
        b1_line == LastWithTag(lines, << "B", "1" >>)
        b2_line == LastWithTag(lines, << "B", "2" >>)
    IN  IF a1_line = None \/ b1_line = None \/ b2_line = None
        THEN [ exc |-> "UnboundLocalError", ret |-> None ]
        ELSE IF ~HasIndex(b2_line[1], 98)
        THEN [ exc |-> "IndexError", ret |-> None ]
        ELSE [ exc |-> "none",
               ret |-> Some(MeetInfoOf(a1_line[1], b1_line[1], b2_line[1])) ]

--------------------------------------------------------------------------
(* Input files.  A line is laid out as line_specs.py documents it: fields  *)
(* at their offsets, blanks between them, the two checksum characters      *)
(* last.                                                                   *)

\* content followed by its own checksum.
Seal(content) == content \o _calculate_checksum(content \o << "0", "0" >>)

\* line with its two checksum characters replaced by two that do not match.
Corrupt(line) ==
    DropLast2(line) \o (IF Last2(line) = << "9", "9" >> THEN << "0", "0" >>
                                                         ELSE << "9", "9" >>)

\* lines with the k-th line's checksum corrupted (k = 0: none).
CorruptAt(lines, k) ==
    [j \in 1..Len(lines) |-> IF j = k THEN Corrupt(lines[j]) ELSE lines[j]]

\* The line of the given width holding each part << offset, text >> at its
\* (0-based) offset and blanks elsewhere.
Layout(width, parts) ==
    [k \in 1..width |->
        IF \E p \in parts : p[1] < k /\ k <= p[1] + Len(p[2])
        THEN LET p == CHOOSE q \in parts : q[1] < k /\ k <= q[1] + Len(q[2])
             IN  p[2][k - p[1]]
        ELSE " "]

A1Line ==
    Seal(Layout(68, { << 0, << "A", "1" >> >>, << 2, << "0", "2" >> >>,
                      << 44, << "M", "M", " ", "8" >> >>,
                      << 58, << "2", "0", "2", "5" >> >> }))

B1Line ==
    Seal(Layout(121, { << 0, << "B", "1" >> >>, << 2, << "M", "E", "E", "T" >> >>,
                       << 47, << "P", "O", "O", "L" >> >>,
                       << 92, << "2", "0", "2", "5" >> >>,
                       << 100, << "2", "0", "2", "6" >> >>,
                       << 116, << "9", "0" >> >> }))

B2Line == Seal(Layout(99, { << 0, << "B", "2" >> >>, << 98, << "Y" >> >> }))

\* A B2 line that ends before the course column.
B2Short == Seal(Layout(10, { << 0, << "B", "2" >> >> }))

C1Line(abbr, name) ==
    Seal(Layout(55, { << 0, << "C", "1" >> >>, << 2, abbr >>, << 7, name >>,
                      << 53, << "S", "E" >> >> }))

D1Line(mm_id, name) ==
    Seal(Layout(85, { << 0, << "D", "1" >> >>, << 2, << "M" >> >>,
                      << 3, mm_id >>, << 8, name >> }))

E1Line(mm_id, stroke, points) ==
    Seal(Layout(68, { << 0, << "E", "1" >> >>, << 3, mm_id >>,
                      << 15, << "5", "0" >> >>, << 21, << stroke >> >>,
                      << 38, << "7" >> >>, << 42, << "5", "1", ".", "0" >> >>,
                      << 61, points >> }))

E2Line(round, time, points) ==
    Seal(Layout(87, { << 0, << "E", "2" >> >>, << 2, << round >> >>,
                      << 3, time >>, << 11, << "Y" >> >>,
                      << 12, << "D", "Q" >> >>, << 20, << "3" >> >>,
                      << 33, points >>, << 83, << "0", ".", "6" >> >> }))

F1Line(abbr, letter) ==
    Seal(Layout(68, { << 0, << "F", "1" >> >>, << 2, abbr >>,
                      << 7, << letter >> >>, << 12, << "M" >> >>,
                      << 17, << "2", "0", "0" >> >>, << 21, << "A" >> >>,
                      << 38, << "9" >> >> }))

F2Line(round, time) ==
    Seal(Layout(102, { << 0, << "F", "2" >> >>, << 2, << round >> >>,
                       << 3, time >>, << 11, << "Y" >> >>,
                       << 83, << "0", ".", "5" >> >>,
                       << 93, << "0", ".", "2" >> >> }))

F3Line(a, b, c, d) ==
    Seal(Layout(47, { << 0, << "F", "3" >> >>, << 3, a >>, << 16, b >>,
                      << 29, c >>, << 42, d >> }))

\* A line of a tag the parser does not read (split times).
G1Line == Seal(Layout(12, { << 0, << "G", "1" >> >> }))

Headers ==
    { << A1Line, B1Line, B2Line >>,
      << B2Line, B1Line, A1Line >>,
      << A1Line, B1Line >>,
      << B1Line, B2Line >>,
      << A1Line, B1Line, B2Short >>,
      << >> }

TeamPool ==
    { C1Line(<< "A", "A", "A" >>, << "O", "N", "E" >>),
      C1Line(<< "A", "A", "A" >>, << "T", "W", "O" >>),
      C1Line(<< "B", "B" >>, << "S", "I", "X" >>),
      C1Line(<< >>, << "N", "I", "L" >>),
      D1Line(<< "1", "1" >>, << "D", "O", "E" >>),
      D1Line(<< "2", "2" >>, << "R", "A", "Y" >>) }

IndividualPool ==
    { E1Line(<< "1", "1" >>, "A", << "5" >>),
      E1Line(<< "2", "2" >>, "B", << >>),
      E2Line("P", << "5", "0", ".", "1" >>, << "7" >>),
      E2Line("F", << "4", "9", ".", "2" >>, << >>),
      G1Line }

RelayPool ==
    { F1Line(<< "A", "A", "A" >>, "A"),
      F1Line(<< "B", "B" >>, "B"),
      F2Line("P", << "9", "0", ".", "1" >>),
      F2Line("F", << "8", "9", ".", "2" >>),
      F3Line(<< "1", "1" >>, << "2", "2" >>, << "3", "3" >>, << "4", "4" >>),
      F3Line(<< "1", "1" >>, << >>, << "3", "3" >>, << "4", "4" >>),
      G1Line }

SeqsUpTo(pool, n) == UNION { [1..m -> pool] : m \in 0..n }

Bodies ==
    SeqsUpTo(TeamPool, MaxBody) \cup SeqsUpTo(IndividualPool, MaxBody)
        \cup SeqsUpTo(RelayPool, MaxBody)

\* lines with the checksum of every line at a position of K corrupted.
CorruptIn(lines, K) ==
    [j \in 1..Len(lines) |-> IF j \in K THEN Corrupt(lines[j]) ELSE lines[j]]

\* Lines too short to end in a checksum: a blank line of the file, and a
\* line of one character.
ShortPool == { << >>, << "Z" >> }

\* Lines of supported tags that end before their later fields: a C1 line
\* that ends inside the team name, an E1 line that ends before the stroke
\* column, an F1 line that ends before the gender column.
ShortRecords ==
    { Seal(Layout(9, { << 0, << "C", "1" >> >>, << 2, << "A", "A", "A" >> >>,
                       << 7, << "O", "N" >> >> })),
      Seal(Layout(12, { << 0, << "E", "1" >> >>, << 3, << "1", "1" >> >> })),
      Seal(Layout(8, { << 0, << "F", "1" >> >>, << 2, << "A", "A", "A" >> >>,
                       << 7, << "A" >> >> })) }

\* The files decoded: a complete header with checksums that match before
\* any body; every header, with any one checksum corrupted, before a body
\* of at most one line; the complete header and such a body with two
\* checksums corrupted; a short line alone or after a header; and a line
\* of a supported tag that ends early, after a header.
Inputs ==
    { h \o b : h \in { << A1Line, B1Line, B2Line >> }, b \in Bodies }
    \cup UNION { { CorruptAt(h \o b, k) : k \in 0..(Len(h) + Len(b)) } :
                 h \in Headers, b \in { c \in Bodies : Len(c) <= 1 } }
    \cup UNION { { CorruptIn(<< A1Line, B1Line, B2Line >> \o b, K) :
                      K \in { L \in SUBSET (1..(3 + Len(b))) :
                                 Cardinality(L) = 2 } } :
                 b \in { c \in Bodies : Len(c) <= 1 } }
    \cup { h \o << l >> : h \in { << >>, << A1Line, B1Line, B2Line >> },
                          l \in ShortPool }
    \cup { << A1Line, B1Line, B2Line, l >> : l \in ShortRecords }

--------------------------------------------------------------------------
(* Hy3File.__init__: the decode *)

VARIABLES
    file_contents,        \* self.file_contents: the lines, "\n" removed
    pc,                   \* the call __init__ is in (or was in when it
                          \* raised): "checksum", "meet_info", "teams",
                          \* "athletes", "individual", "relay"; "done" once
                          \* it returned
    i,                    \* the 1-based position of the running loop's line
    raised,               \* the exception that left __init__, or "none"
    meet_info,            \* self.meet_info: None or Some(MeetInfo)
    teams,                \* self.teams: list of Team
    athletes,             \* self.athletes: list of Athlete
    individual_results,   \* self.individual_results: list of IndividualResult
    relay_results,        \* self.relay_results: list of RelayResult
    current_team,         \* _extract_athletes' local: None (the {}) or Some(Team)
    current_event_entry,  \* _extract_individual_results' local; None: unbound
    f1_data,              \* _extract_relay_results' local; None: unbound
    f2_data,              \* _extract_relay_results' local; None: unbound
    warnings,             \* the "Warning: Could not parse ..." lines printed,
                          \* the only record of a rejected line the decode keeps
    errors,               \* validate_lines' local errors
    all_valid,            \* validate_lines' local all_valid
    structure,            \* what validate_file_structure returned, or None
    call,                 \* the call of a utility or a projection that is
                          \* made: its name and its arguments (None: no call)
    ret                   \* None, or Some of what the call ended with

vars == << file_contents, pc, i, raised, meet_info, teams, athletes,
           individual_results, relay_results, current_team,
           current_event_entry, f1_data, f2_data, warnings,
           errors, all_valid, structure, call, ret >>

entities == << meet_info, teams, athletes, individual_results, relay_results >>
locals == << current_team, current_event_entry, f1_data, f2_data >>
validation == << errors, all_valid, structure >>
api == << call, ret >>

Init ==
    /\ file_contents \in Inputs
    /\ pc = "checksum"
    /\ i = 1
    /\ raised = "none"
    /\ meet_info = None
    /\ teams = << >>
    /\ athletes = << >>
    /\ individual_results = << >>
    /\ relay_results = << >>
    /\ current_team = None
    /\ current_event_entry = None
    /\ f1_data = None
    /\ f2_data = None
    /\ warnings = << >>
    /\ errors = << >>
    /\ all_valid = TRUE
    /\ structure = None
    /\ call = None
    /\ ret = None

\* An exception nothing catches leaves __init__.
Raise(e) == pc' = pc /\ raised' = e /\ i' = i

\* The loop goes on with the next line.
NextLine == pc' = pc /\ raised' = raised /\ i' = i + 1

\* The loop is over: __init__ makes its next call.
Call(next) == pc' = next /\ raised' = raised /\ i' = 1

\* A checksum pass that goes on after a mismatch instead of raising.
_run_checksumSkipping ==
    /\ pc = "checksum" /\ raised = "none"
    /\ IF i <= Len(file_contents) THEN NextLine ELSE Call("meet_info")
    /\ UNCHANGED << file_contents, entities, locals, warnings >>
    /\ UNCHANGED validation
    /\ UNCHANGED api

\* One iteration of _run_checksum's loop, or its return.
_run_checksum ==
    /\ pc = "checksum" /\ raised = "none"
    /\ IF i <= Len(file_contents)
       THEN LET line == file_contents[i]
                calculated_checksum == _calculate_checksum(line)
                actual_checksum == Last2(line)
            IN  IF calculated_checksum # actual_checksum
                THEN Raise("ValueError")
                ELSE NextLine
       ELSE Call("meet_info")
    /\ UNCHANGED << file_contents, entities, locals, warnings >>
    /\ UNCHANGED validation
    /\ UNCHANGED api

\* self.meet_info = self._extract_meet_info(self.file_contents)
_extract_meet_info_call ==
    /\ pc = "meet_info" /\ raised = "none"
    /\ LET r == _extract_meet_info(file_contents)
       IN  IF r.exc # "none"
           THEN Raise(r.exc) /\ meet_info' = meet_info
           ELSE Call("teams") /\ meet_info' = r.ret
    /\ UNCHANGED << file_contents, teams, athletes, individual_results,
                    relay_results, locals, warnings >>
    /\ UNCHANGED validation
    /\ UNCHANGED api

\* line_specs.is_line_type_supported: the tag is a key of LINE_SPECS.
is_line_type_supported(line_type) ==
    line_type \in { << "A", "1" >>, << "B", "1" >>, << "B", "2" >>,
                     << "C", "1" >>, << "D", "1" >>, << "E", "1" >>,
                     << "E", "2" >>, << "F", "1" >>, << "F", "2" >>,
                     << "F", "3" >> }

\* A team pass that logs every line whose tag is not supported.
_extract_teamsLogging ==
    /\ pc = "teams" /\ raised = "none"
    /\ IF i <= Len(file_contents)
       THEN LET line == file_contents[i]
            IN  /\ NextLine
                /\ IF startswith(line, << "C", "1" >>)
                   THEN IF _parse_team_infoRaises(line) = "ValueError"
                        THEN /\ warnings' = Append(warnings, line)
                             /\ teams' = teams
                        ELSE /\ teams' = Append(teams, _parse_team_info(line))
                             /\ warnings' = warnings
                   ELSE IF ~is_line_type_supported(Slice(line, 0, 2))
                   THEN /\ warnings' = Append(warnings, line)
                        /\ teams' = teams
                   ELSE UNCHANGED << teams, warnings >>
       ELSE Call("athletes") /\ UNCHANGED << teams, warnings >>
    /\ UNCHANGED << file_contents, meet_info, athletes, individual_results,
                    relay_results, locals >>
    /\ UNCHANGED validation
    /\ UNCHANGED api

\* One iteration of _extract_teams' loop, or its return.
_extract_teams ==
    /\ pc = "teams" /\ raised = "none"
    /\ IF i <= Len(file_contents)
       THEN LET line == file_contents[i]
            IN  /\ NextLine
                /\ IF startswith(line, << "C", "1" >>)
                   THEN IF _parse_team_infoRaises(line) = "ValueError"
                        THEN /\ warnings' = Append(warnings, line)
                             /\ teams' = teams
                        ELSE /\ teams' = Append(teams, _parse_team_info(line))
                             /\ warnings' = warnings
                   ELSE UNCHANGED << teams, warnings >>
       ELSE Call("athletes") /\ UNCHANGED << teams, warnings >>
    /\ UNCHANGED << file_contents, meet_info, athletes, individual_results,
                    relay_results, locals >>
    /\ UNCHANGED validation
    /\ UNCHANGED api

\* One iteration of _extract_athletes' loop, or its return.
_extract_athletes ==
    /\ pc = "athletes" /\ raised = "none"
    /\ IF i <= Len(file_contents)
       THEN LET line == file_contents[i]
            IN  IF startswith(line, << "C", "1" >>)
                THEN /\ NextLine
                     /\ IF _parse_team_infoRaises(line) = "ValueError"
                        THEN /\ warnings' = Append(warnings, line)
                             /\ current_team' = current_team
                        ELSE /\ current_team' = Some(_parse_team_info(line))
                             /\ warnings' = warnings
                     /\ athletes' = athletes
                ELSE IF startswith(line, << "D", "1" >>)
                THEN IF _parse_athlete_infoRaises(line) = "IndexError"
                     THEN Raise("IndexError")
                          /\ UNCHANGED << athletes, current_team, warnings >>
                     ELSE IF _parse_athlete_infoRaises(line) = "ValueError"
                     THEN /\ NextLine
                          /\ warnings' = Append(warnings, line)
                          /\ UNCHANGED << athletes, current_team >>
                     ELSE /\ NextLine
                          /\ athletes' = Append(athletes,
                                 _parse_athlete_info(line, current_team))
                          /\ UNCHANGED << current_team, warnings >>
                ELSE NextLine /\ UNCHANGED << athletes, current_team, warnings >>
       ELSE Call("individual")
            /\ UNCHANGED << athletes, current_team, warnings >>
    /\ UNCHANGED << file_contents, meet_info, teams, individual_results,
                    relay_results, current_event_entry, f1_data, f2_data >>
    /\ UNCHANGED validation
    /\ UNCHANGED api

\* An individual pass in which an entry line does not replace the entry
\* that is pending.
_extract_individual_resultsKeepingFirst ==
    /\ pc = "individual" /\ raised = "none"
    /\ IF i <= Len(file_contents)
       THEN LET line == file_contents[i]
            IN  IF startswith(line, << "E", "1" >>)
                THEN IF _parse_event_entryRaises(line) # "none"
                     THEN Raise(_parse_event_entryRaises(line))
                          /\ UNCHANGED << current_event_entry,
                                          individual_results >>
                     ELSE /\ NextLine
                          /\ current_event_entry' =
                                 IF current_event_entry = None
                                 THEN Some(_parse_event_entry(line))
                                 ELSE current_event_entry
                          /\ individual_results' = individual_results
                ELSE IF startswith(line, << "E", "2" >>)
                THEN IF _parse_individual_resultRaises(line) # "none"
                     THEN Raise(_parse_individual_resultRaises(line))
                          /\ UNCHANGED << current_event_entry,
                                          individual_results >>
                     ELSE IF current_event_entry = None
                     THEN Raise("UnboundLocalError")
                          /\ UNCHANGED << current_event_entry,
                                          individual_results >>
                     ELSE LET result_data == _parse_individual_result(line)
                              combined_dict ==
                                  DictMerge(current_event_entry[1], result_data)
                          IN  /\ NextLine
                              /\ individual_results' =
                                     Append(individual_results, combined_dict)
                              /\ current_event_entry' = current_event_entry
                ELSE NextLine
                     /\ UNCHANGED << current_event_entry, individual_results >>
       ELSE Call("relay")
            /\ UNCHANGED << current_event_entry, individual_results >>
    /\ UNCHANGED << file_contents, meet_info, teams, athletes, relay_results,
                    current_team, f1_data, f2_data, warnings >>
    /\ UNCHANGED validation
    /\ UNCHANGED api

\* One iteration of _extract_individual_results' loop, or its return.
_extract_individual_results ==
    /\ pc = "individual" /\ raised = "none"
    /\ IF i <= Len(file_contents)
       THEN LET line == file_contents[i]
            IN  IF startswith(line, << "E", "1" >>)
                THEN IF _parse_event_entryRaises(line) # "none"
                     THEN Raise(_parse_event_entryRaises(line))
                          /\ UNCHANGED << current_event_entry,
                                          individual_results >>
                     ELSE /\ NextLine
                          /\ current_event_entry' =
                                 Some(_parse_event_entry(line))
                          /\ individual_results' = individual_results
                ELSE IF startswith(line, << "E", "2" >>)
                THEN IF _parse_individual_resultRaises(line) # "none"
                     THEN Raise(_parse_individual_resultRaises(line))
                          /\ UNCHANGED << current_event_entry,
                                          individual_results >>
                     ELSE IF current_event_entry = None
                     THEN Raise("UnboundLocalError")
                          /\ UNCHANGED << current_event_entry,
                                          individual_results >>
                     ELSE LET result_data == _parse_individual_result(line)
                              combined_dict ==
                                  DictMerge(current_event_entry[1], result_data)
                          IN  /\ NextLine
                              /\ individual_results' =
                                     Append(individual_results, combined_dict)
                              /\ current_event_entry' = current_event_entry
                ELSE NextLine
                     /\ UNCHANGED << current_event_entry, individual_results >>
       ELSE Call("relay")
            /\ UNCHANGED << current_event_entry, individual_results >>
    /\ UNCHANGED << file_contents, meet_info, teams, athletes, relay_results,
                    current_team, f1_data, f2_data, warnings >>
    /\ UNCHANGED validation
    /\ UNCHANGED api

\* One iteration of _extract_relay_results' loop, or its return, which is
\* __init__'s.
_extract_relay_results ==
    /\ pc = "relay" /\ raised = "none"
    /\ IF i <= Len(file_contents)
       THEN LET line == file_contents[i]
                line_id == Slice(line, 0, 2)
            IN  IF line_id = << "F", "1" >>
                THEN IF _parse_f1_lineRaises(line) # "none"
                     THEN Raise(_parse_f1_lineRaises(line))
                          /\ UNCHANGED << f1_data, f2_data, relay_results >>
                     ELSE /\ NextLine
                          /\ f1_data' = Some(_parse_f1_line(line))
                          /\ UNCHANGED << f2_data, relay_results >>
                ELSE IF line_id = << "F", "2" >>
                THEN IF _parse_f2_lineRaises(line) # "none"
                     THEN Raise(_parse_f2_lineRaises(line))
                          /\ UNCHANGED << f1_data, f2_data, relay_results >>
                     ELSE /\ NextLine
                          /\ f2_data' = Some(_parse_f2_line(line))
                          /\ UNCHANGED << f1_data, relay_results >>
                ELSE IF line_id = << "F", "3" >>
                THEN IF f1_data = None \/ f2_data = None
                     THEN Raise("UnboundLocalError")
                          /\ UNCHANGED << f1_data, f2_data, relay_results >>
                     ELSE LET f3_data == _parse_f3_line(line)
                              all_relay_data ==
                                  DictMerge(DictMerge(f1_data[1], f2_data[1]),
                                            f3_data)
                          IN  /\ NextLine
                              /\ relay_results' =
                                     Append(relay_results, all_relay_data)
                              /\ UNCHANGED << f1_data, f2_data >>
                ELSE NextLine /\ UNCHANGED << f1_data, f2_data, relay_results >>
       ELSE /\ pc' = "done"
            /\ UNCHANGED << i, raised, f1_data, f2_data, relay_results >>
    /\ UNCHANGED << file_contents, meet_info, teams, athletes,
                    individual_results, current_team, current_event_entry,
                    warnings >>
    /\ UNCHANGED validation
    /\ UNCHANGED api

Next ==
    \/ _run_checksum
    \/ _extract_meet_info_call
    \/ _extract_teams
    \/ _extract_athletes
    \/ _extract_individual_results
    \/ _extract_relay_results

Spec == Init /\ [][Next]_vars

--------------------------------------------------------------------------
(* validator.py: ChecksumValidator and validate_file_structure, applied to *)
(* a line list: validate_lines over it, then validate_file_structure.      *)

\* The weighted code-point sum of line[:-2] floor-divided by 21, without
\* the 205 added.
calculate_checksum_sum2NoOffset(line) ==
    LET content == DropLast2(line)
        ord_chars == [k \in 1..Len(content) |-> ord(content[k])]
        odd_sum == SumRange([k \in 1..Len(content) |->
                               IF (k - 1) % 2 = 1 THEN 2 * ord_chars[k] ELSE 0],
                            1, Len(content))
        even_sum == SumRange([k \in 1..Len(content) |->
                                IF (k - 1) % 2 = 0 THEN ord_chars[k] ELSE 0],
                             1, Len(content))
        sum_val == odd_sum + even_sum
        result == sum_val \div 21
    IN  result

\* sum2 of calculate_checksum: the weighted code-point sum of line[:-2],
\* floor-divided by 21, plus 205.
calculate_checksum_sum2(line) ==
    LET content == DropLast2(line)
        ord_chars == [k \in 1..Len(content) |-> ord(content[k])]
        odd_sum == SumRange([k \in 1..Len(content) |->
                               IF (k - 1) % 2 = 1 THEN 2 * ord_chars[k] ELSE 0],
                            1, Len(content))
        even_sum == SumRange([k \in 1..Len(content) |->
                                IF (k - 1) % 2 = 0 THEN ord_chars[k] ELSE 0],
                             1, Len(content))
        sum_val == odd_sum + even_sum
        result == sum_val \div 21
    IN  result + 205

\* The checksum with the two digits in reading order.
calculate_checksumForward(line) ==
    LET digits == str(calculate_checksum_sum2(line))
    IN  [ exc |-> "none", ret |-> << FromEnd(digits, 2), FromEnd(digits, 1) >> ]

\* exc: "IndexError" when str(sum2) has no [-2]; else ret is checksum.
calculate_checksum(line) ==
    LET digits == str(calculate_checksum_sum2(line))
    IN  IF Len(digits) < 2 THEN [ exc |-> "IndexError", ret |-> << >> ]
        ELSE [ exc |-> "none",
               ret |-> << FromEnd(digits, 1), FromEnd(digits, 2) >> ]

\* validate_line comparing against the checksum of the whole line, the
\* last two characters included.
validate_lineWhole(line, line_num) ==
    LET calculated == calculate_checksum(line \o << "0", "0" >>)
    IN  IF Len(line) < 2
        THEN [ exc |-> "none", is_valid |-> FALSE,
               error_message |-> << "Line too short", Len(line) >> ]
        ELSE IF calculated.ret # Last2(line)
        THEN [ exc |-> "none", is_valid |-> FALSE,
               error_message |-> << "Checksum mismatch", line_num,
                                    calculated.ret, Last2(line) >> ]
        ELSE [ exc |-> "none", is_valid |-> TRUE, error_message |-> << >> ]

\* (is_valid, error_message); the message is its kind and the values
\* formatted into it, "" is << >>; line_num 0 stands for no line number.
validate_line(line, line_num) ==
    IF Len(line) < 2
    THEN [ exc |-> "none", is_valid |-> FALSE,
           error_message |-> << "Line too short", Len(line) >> ]
    ELSE LET calculated == calculate_checksum(line)
             actual == Last2(line)
         IN  IF calculated.exc # "none"
             THEN [ exc |-> calculated.exc, is_valid |-> FALSE,
                    error_message |-> << >> ]
             ELSE IF calculated.ret # actual
             THEN [ exc |-> "none", is_valid |-> FALSE,
                    error_message |-> << "Checksum mismatch", line_num,
                                         calculated.ret, actual >> ]
             ELSE [ exc |-> "none", is_valid |-> TRUE,
                    error_message |-> << >> ]

\* (is_valid, error_messages) of validate_file_structure.
validate_file_structure(lines) ==
    IF lines = << >>
    THEN [ is_valid |-> FALSE, error_messages |-> << "File is empty" >> ]
    ELSE LET a1 == IF Len(lines[1]) >= 2
                      /\ Slice(lines[1], 0, 2) # << "A", "1" >>
                   THEN << "File must start with A1 (file header) line" >>
                   ELSE << >>
             has_b1 == \E k \in 1..Len(lines) :
                          /\ Len(lines[k]) >= 2
                          /\ Slice(lines[k], 0, 2) = << "B", "1" >>
             b1 == IF ~has_b1
                   THEN << "File must contain at least one B1 (meet info) line" >>
                   ELSE << >>
             errs == a1 \o b1
         IN  IF errs # << >>
             THEN [ is_valid |-> FALSE, error_messages |-> errs ]
             ELSE [ is_valid |-> TRUE, error_messages |-> << >> ]

\* Lines given to the validator, written out with the checksum the format
\* gives them: too short, empty content, header tags, a tag alone, contents
\* that differ only in the order of their characters, an unknown tag, and a
\* wrong checksum.
LinePool ==
    { << >>, << "Z" >>,
      << "5", "0" >>,
      << "A", "1", "2", "1" >>,
      << "B", "1", "2", "1" >>,
      << "A", "1" >>,
      << "A", "Z", "6", "1" >>,
      << "Z", "A", "5", "1" >>,
      << "G", "1", " ", "7", "9", "1" >>,
      << "B", "1", "9", "9" >> }

ValidatorInputs == SeqsUpTo(LinePool, MaxLines)

InitValidator ==
    /\ file_contents \in ValidatorInputs
    /\ pc = "validate_lines"
    /\ i = 1
    /\ raised = "none"
    /\ meet_info = None
    /\ teams = << >>
    /\ athletes = << >>
    /\ individual_results = << >>
    /\ relay_results = << >>
    /\ current_team = None
    /\ current_event_entry = None
    /\ f1_data = None
    /\ f2_data = None
    /\ warnings = << >>
    /\ errors = << >>
    /\ all_valid = TRUE
    /\ structure = None
    /\ call = None
    /\ ret = None

\* One iteration of validate_lines' loop (i is enumerate's i + 1), or its
\* return.
validate_lines ==
    /\ pc = "validate_lines" /\ raised = "none"
    /\ IF i <= Len(file_contents)
       THEN LET line == file_contents[i]
                r == validate_line(line, i)
            IN  IF r.exc # "none"
                THEN Raise(r.exc) /\ UNCHANGED << errors, all_valid >>
                ELSE /\ NextLine
                     /\ IF ~r.is_valid
                        THEN /\ errors' =
                                   Append(errors, << i, line, r.error_message >>)
                             /\ all_valid' = FALSE
                        ELSE UNCHANGED << errors, all_valid >>
       ELSE Call("validate_file_structure") /\ UNCHANGED << errors, all_valid >>
    /\ UNCHANGED << file_contents, entities, locals, warnings, structure >>
    /\ UNCHANGED api

\* validate_file_structure(lines) is called and returns.
validate_file_structure_call ==
    /\ pc = "validate_file_structure" /\ raised = "none"
    /\ structure' = Some(validate_file_structure(file_contents))
    /\ pc' = "validated"
    /\ UNCHANGED << file_contents, i, raised, entities, locals, warnings,
                    errors, all_valid >>
    /\ UNCHANGED api

NextValidator ==
    \/ validate_lines
    \/ validate_file_structure_call

ValidatorSpec == InitValidator /\ [][NextValidator]_vars

--------------------------------------------------------------------------
(* utils.py: ss_to_display and rank_times.                                 *)
(*                                                                         *)
(* A Python value that is an argument or a cell of a DataFrame is a        *)
(* record with its kind: None, a str, a float.  A finite float is its      *)
(* decimal literal in thousandths (milli) and the sign of what the binary  *)
(* double adds to that literal (err): 59.995 is stored as                  *)
(* 59.99499999999999744..., so err = -1.                                   *)

PyNone == [ kind |-> "None" ]
NaN == [ kind |-> "nan" ]
Inf == [ kind |-> "inf" ]
PyStr(s) == [ kind |-> "str", s |-> s ]

\* The sign of (nearest double - literal) of the literals that are not a
\* multiple of 1/8 (those are stored exactly).
InexactSign ==
    [ q \in { -10, 5, 15, 45670, 45678, 49200, 50100, 59990, 59994, 59995,
              59996, 65005, 83450, 89200, 90100, 119995 } |->
        IF q \in { -10, 15, 45678, 59994, 59995, 65005, 90100 } THEN -1 ELSE 1 ]

BinaryError(milli) == IF milli % 125 = 0 THEN 0 ELSE InexactSign[milli]

PyFloat(milli) ==
    [ kind |-> "float", milli |-> milli, err |-> BinaryError(milli) ]

\* int(digits) of a str of decimal digits ("" gives 0).
RECURSIVE DigitsValue(_)
DigitsValue(digits) ==
    IF digits = << >> THEN 0
    ELSE 10 * DigitsValue(SubSeq(digits, 1, Len(digits) - 1))
         + (IndexIn(Digits, digits[Len(digits)]) - 1)

\* float(s) of a str: blanks around it dropped, then "nan", "inf" in any
\* case, or an optional "-" and decimal digits with at most one "." (the
\* strings converted here have at most three decimals and no exponent);
\* anything else is a ValueError.
float_of_str(s) ==
    LET t        == strip(s)
        negative == t # << >> /\ t[1] = "-"
        u        == IF negative THEN SubSeq(t, 2, Len(t)) ELSE t
        dots     == { k \in 1..Len(u) : u[k] = "." }
        point    == IF dots = {} THEN Len(u) + 1 ELSE CHOOSE k \in dots : TRUE
        whole    == SubSeq(u, 1, point - 1)
        frac     == SubSeq(u, point + 1, Len(u))
        padded   == SubSeq(frac \o << "0", "0", "0" >>, 1, 3)
        milli    == 1000 * DigitsValue(whole) + DigitsValue(padded)
    IN  IF u = << "N", "A", "N" >> THEN [ exc |-> "none", ret |-> NaN ]
        ELSE IF t = << "I", "N", "F" >> THEN [ exc |-> "none", ret |-> Inf ]
        ELSE IF \/ Cardinality(dots) > 1
                \/ Len(whole) + Len(frac) = 0
                \/ \E k \in 1..Len(u) :
                      u[k] # "." /\ \A d \in 1..Len(Digits) : Digits[d] # u[k]
        THEN [ exc |-> "ValueError", ret |-> PyNone ]
        ELSE [ exc |-> "none",
               ret |-> PyFloat(IF negative THEN 0 - milli ELSE milli) ]

\* float(seconds)
float(seconds) ==
    IF seconds.kind = "None" THEN [ exc |-> "TypeError", ret |-> PyNone ]
    ELSE IF seconds.kind = "str" THEN float_of_str(seconds.s)
    ELSE [ exc |-> "none", ret |-> seconds ]

\* x < 0 for a float that is not NaN.
Negative(x) ==
    x.kind = "float" /\ (x.milli < 0 \/ (x.milli = 0 /\ x.err < 0))

\* int(seconds // 60) for a finite seconds >= 0.
FloorDiv60(x) ==
    IF x.milli % 60000 = 0 /\ x.err < 0 THEN (x.milli \div 60000) - 1
    ELSE x.milli \div 60000

\* seconds % 60 for a finite seconds >= 0: fmod is exact, so the part the
\* double adds to the literal stays.
Mod60(x) ==
    IF x.milli % 60000 = 0 /\ x.err < 0
    THEN [ kind |-> "float", milli |-> 60000, err |-> x.err ]
    ELSE [ kind |-> "float", milli |-> x.milli % 60000, err |-> x.err ]

\* The hundredths f"{x:.2f}" prints for a finite x >= 0: the exact value of
\* the double rounded to the nearest hundredth, an exact tie to the even one.
Hundredths(x) ==
    LET down == x.milli \div 10
        rest == x.milli % 10
    IN  IF rest > 5 \/ (rest = 5 /\ x.err > 0) THEN down + 1
        ELSE IF rest < 5 \/ (rest = 5 /\ x.err < 0) THEN down
        ELSE IF down % 2 = 0 THEN down ELSE down + 1

\* f"{x:.2f}"
Format2f(x) ==
    LET h == Hundredths(x)
    IN  str(h \div 100) \o << "." >>
            \o << Digits[((h \div 10) % 10) + 1], Digits[(h % 10) + 1] >>

\* f"{x:05.2f}": zeros in front up to a width of five.
Format05_2f(x) ==
    LET plain == Format2f(x)
    IN  [k \in 1..(5 - Len(plain)) |-> "0"] \o plain

\* What the call ends with: exc is the exception that leaves it ("none":
\* it returns ret).
ss_to_display(seconds) ==
    LET converted == float(seconds)
    IN  IF converted.exc \in { "ValueError", "TypeError", "OverflowError" }
        THEN [ exc |-> "none", ret |-> << "I", "n", "v", "a", "l", "i", "d" >> ]
        ELSE LET x == converted.ret
             IN  IF x.kind = "nan"
                 THEN [ exc |-> "none", ret |-> << "N", "a", "N" >> ]
                 ELSE IF Negative(x)
                 THEN [ exc |-> "none",
                        ret |-> << "I", "n", "v", "a", "l", "i", "d" >> ]
                 ELSE IF x.kind = "inf"
                 \* inf // 60 is nan, and int(nan) raises
                 THEN [ exc |-> "ValueError", ret |-> << >> ]
                 ELSE LET minutes == FloorDiv60(x)
                          remaining_seconds == Mod60(x)
                      IN  IF minutes = 0
                          THEN [ exc |-> "none",
                                 ret |-> Format2f(remaining_seconds) ]
                          ELSE [ exc |-> "none",
                                 ret |-> str(minutes) \o << ":" >>
                                         \o Format05_2f(remaining_seconds) ]

\* A DataFrame is its set of column names and its rows in order, each row
\* a function from the column names to cells.

\* The cells of a column, in row order.
Column(df, col) == [k \in 1..Len(df.rows) |-> df.rows[k][col]]

\* pandas.api.types.is_numeric_dtype of a column built from Python values:
\* floats (None among them becomes NaN) make a float64 column; a str, or
\* nothing but None, makes an object column.
is_numeric_dtype(column) ==
    /\ \A k \in 1..Len(column) : column[k].kind \in { "float", "nan", "inf", "None" }
    /\ \E k \in 1..Len(column) : column[k].kind # "None"

\* A None cell of a float64 column is NaN.
AsFloat64(cell) == IF cell.kind = "None" THEN NaN ELSE cell

\* a sorts before b, ascending, NaN at the bottom.
SortsBefore(a, b) ==
    IF a.kind = "nan" THEN FALSE
    ELSE IF b.kind = "nan" THEN TRUE
    ELSE IF a.kind = "inf" THEN FALSE
    ELSE IF b.kind = "inf" THEN TRUE
    ELSE a.milli < b.milli

\* The rows of the group of row k: the same cells in every grouping column
\* (dropna=False: a missing key is a group of its own).
GroupRows(df, k, group_cols) ==
    SelectSeq([j \in 1..Len(df.rows) |-> j],
              LAMBDA j : \A c \in 1..Len(group_cols) :
                            df.rows[j][group_cols[c]] = df.rows[k][group_cols[c]])

\* Series.rank(method="min", ascending=True, na_option="bottom") of a
\* group: the values are sorted ascending with the missing ones last, and
\* a row gets the first position of its run of equal values.
RankMin(values, k) ==
    LET order == SortSeq([j \in 1..Len(values) |-> j],
                         LAMBDA a, b : SortsBefore(values[a], values[b]))
        run   == { p \in 1..Len(order) : values[order[p]] = values[k] }
    IN  CHOOSE p \in run : \A q \in run : p <= q

\* rank_times with method="dense" in place of method="min".
rank_timesDense(df, group_cols, rank_col, out_col) ==
    LET cols == IF group_cols = None THEN << "event_no" >> ELSE group_cols[1]
        required_cols == { cols[c] : c \in 1..Len(cols) } \cup { rank_col }
        ranked(k) ==
            LET members == GroupRows(df, k, cols)
                values  == [m \in 1..Len(members) |->
                               AsFloat64(df.rows[members[m]][rank_col])]
                at      == CHOOSE m \in 1..Len(members) : members[m] = k
                \* method="dense": the distinct values that sort before, plus 1
            IN  PyFloat(1000 * (1 + Cardinality(
                    { values[j] : j \in { n \in 1..Len(values) :
                          SortsBefore(values[n], values[at]) } })))
    IN  IF ~(required_cols \subseteq df.columns)
        THEN [ exc |-> "KeyError", ret |-> df ]
        ELSE IF Len(df.rows) > 0 /\ ~is_numeric_dtype(Column(df, rank_col))
        THEN [ exc |-> "TypeError", ret |-> df ]
        ELSE [ exc |-> "none",
               ret |-> [ columns |-> df.columns \cup { out_col },
                         rows |-> [k \in 1..Len(df.rows) |->
                                     [c \in df.columns \cup { out_col } |->
                                         IF c = out_col THEN ranked(k)
                                         ELSE df.rows[k][c]]] ] ]

\* rank_times(df, group_cols, rank_col, out_col); group_cols is None or
\* Some of the list of column names.
rank_times(df, group_cols, rank_col, out_col) ==
    LET cols == IF group_cols = None THEN << "event_no" >> ELSE group_cols[1]
        required_cols == { cols[c] : c \in 1..Len(cols) } \cup { rank_col }
        ranked(k) ==
            LET members == GroupRows(df, k, cols)
                values  == [m \in 1..Len(members) |->
                               AsFloat64(df.rows[members[m]][rank_col])]
                at      == CHOOSE m \in 1..Len(members) : members[m] = k
            IN  PyFloat(1000 * RankMin(values, at))
    IN  IF ~(required_cols \subseteq df.columns)
        THEN [ exc |-> "KeyError", ret |-> df ]
        ELSE IF Len(df.rows) > 0 /\ ~is_numeric_dtype(Column(df, rank_col))
        THEN [ exc |-> "TypeError", ret |-> df ]
        ELSE [ exc |-> "none",
               ret |-> [ columns |-> df.columns \cup { out_col },
                         rows |-> [k \in 1..Len(df.rows) |->
                                     [c \in df.columns \cup { out_col } |->
                                         IF c = out_col THEN ranked(k)
                                         ELSE df.rows[k][c]]] ] ]

\* The most rows of a table given to rank_times.
MaxRows == 4

\* The arguments ss_to_display is called with.
SecondsPool ==
    { PyFloat(q) : q \in { 0, 5, 15, 125, 375, 500, 45670, 45678, 59990,
                           59994, 59995, 59996, 60000, 65005, 83450, 119995,
                           125000, 600500, 3661250, -10, -10500 } }
    \cup { NaN, Inf, PyNone }
    \cup { PyStr(s) : s \in { << "4", "5", ".", "6", "7" >>,
                               << "8", "3", ".", "4", "5" >>,
                               << " ", "6", "0" >>,
                               << "-", "0", ".", "0", "1" >>,
                               << "N", "A", "N" >>,
                               << "I", "N", "F" >>,
                               << "A", "B", "C" >>,
                               << "1", "2", ".", "3", "4", ".", "5", "6" >>,
                               << "." >>,
                               << >> } }

\* The rows of the tables ranked: an event number and a seed time, which
\* is a float or missing.
RankRows ==
    { [ c \in { "event_no", "seed_time" } |->
          IF c = "event_no" THEN e ELSE t ] :
      e \in { PyFloat(1000), PyFloat(2000) },
      t \in { PyFloat(48000), PyFloat(50000), PyFloat(52000), NaN } }

\* The calls of rank_times: a table of floats under the default grouping
\* and under an explicit one; a table whose seed times are text; a table
\* without the column to rank.
RankCalls ==
    { [ fn |-> "rank_times",
        df |-> [ columns |-> { "event_no", "seed_time" }, rows |-> rows ],
        group_cols |-> g, rank_col |-> "seed_time", out_col |-> "rank" ] :
      rows \in SeqsUpTo(RankRows, MaxRows),
      g \in { None } }
    \cup
    { [ fn |-> "rank_times",
        df |-> [ columns |-> { "event_no", "seed_time" }, rows |-> rows ],
        group_cols |-> Some(<< "seed_time" >>), rank_col |-> "seed_time",
        out_col |-> "rank" ] :
      rows \in SeqsUpTo(RankRows, 1) }
    \cup
    { [ fn |-> "rank_times",
        df |-> [ columns |-> { "event_no", "seed_time" },
                 rows |-> << [ c \in { "event_no", "seed_time" } |->
                                 IF c = "event_no" THEN PyFloat(1000)
                                 ELSE PyStr(<< "4", "8", ".", "0" >>) ] >> ],
        group_cols |-> None, rank_col |-> "seed_time", out_col |-> "rank" ],
      [ fn |-> "rank_times",
        df |-> [ columns |-> { "event_no" },
                 rows |-> << [ c \in { "event_no" } |-> PyFloat(1000) ] >> ],
        group_cols |-> None, rank_col |-> "seed_time", out_col |-> "rank" ] }

InitUtils ==
    /\ call \in { Some(c) : c \in RankCalls }
                \cup { Some([ fn |-> "ss_to_display", seconds |-> x ]) :
                          x \in SecondsPool }
    /\ ret = None
    /\ file_contents = << >>
    /\ pc = "call"
    /\ i = 1
    /\ raised = "none"
    /\ meet_info = None
    /\ teams = << >>
    /\ athletes = << >>
    /\ individual_results = << >>
    /\ relay_results = << >>
    /\ current_team = None
    /\ current_event_entry = None
    /\ f1_data = None
    /\ f2_data = None
    /\ warnings = << >>
    /\ errors = << >>
    /\ all_valid = TRUE
    /\ structure = None

decode == << file_contents, i, raised, entities, locals, warnings >>

\* ss_to_display(seconds) is called and ends.
ss_to_display_call ==
    /\ pc = "call" /\ call # None /\ call[1].fn = "ss_to_display"
    /\ ret' = Some(ss_to_display(call[1].seconds))
    /\ pc' = "returned"
    /\ UNCHANGED << call, decode, validation >>

\* rank_times(df, group_cols, rank_col, out_col) is called and ends.
rank_times_call ==
    /\ pc = "call" /\ call # None /\ call[1].fn = "rank_times"
    /\ ret' = Some(rank_times(call[1].df, call[1].group_cols,
                              call[1].rank_col, call[1].out_col))
    /\ pc' = "returned"
    /\ UNCHANGED << call, decode, validation >>

NextUtils ==
    \/ ss_to_display_call
    \/ rank_times_call

UtilsSpec == InitUtils /\ [][NextUtils]_vars

--------------------------------------------------------------------------
(* The projections: Hy3File.individual_results_to_df, and the transformers *)
(* of transformers/dataframe_transformer.py.                               *)
(*                                                                         *)
(* An object is its __dict__, a function from attribute names to cells,    *)
(* and whether its class has a model_dump method: the classes of           *)
(* hyparse/objects have to_dict only.  The columns of a DataFrame are a    *)
(* set: their order is not modelled.                                       *)

IndividualResultAttrs ==
    { "mm_athlete_id", "event_no", "distance", "stroke_code", "seed_time",
      "round", "time", "course", "heat", "lane", "heat_place",
      "overall_place", "backup_time_1", "backup_time_2", "reaction_time" }

AthleteAttrs ==
    { "gender", "mm_id", "first_name", "nick_name", "last_name", "usas_id",
      "team" }

RelayResultAttrs ==
    { "team_abbr", "relay_team", "gender", "event_no", "distance",
      "stroke_code", "round", "seed_time", "time", "time_code", "course",
      "heat", "lane", "heat_place", "overall_place", "backup_time_1",
      "backup_time_2", "backup_time_3", "touchpad_time", "relay_athletes",
      "reaction_times" }

\* The object a class's constructor makes of the keyword arguments kwargs
\* (an entity of the decode): an attribute that is not given is None, a
\* list of strs stays a list, the team of an Athlete is a str or None.
Object(kwargs, attrs, has_model_dump) ==
    [ model_dump |-> has_model_dump,
      dict |-> [a \in attrs |->
                  IF a \notin DOMAIN kwargs THEN PyNone
                  ELSE IF a = "team"
                  THEN IF kwargs[a] = None THEN PyNone ELSE PyStr(kwargs[a][1])
                  ELSE IF a \in { "relay_athletes", "reaction_times" }
                  THEN [ kind |-> "list",
                         items |-> [k \in 1..Len(kwargs[a]) |->
                                       PyStr(kwargs[a][k])] ]
                  ELSE PyStr(kwargs[a])] ]

\* obj.to_dict(): self.__dict__
to_dict(obj) == obj.dict

\* STROKE_CODES.get(code, "Unknown") for a cell.
STROKE_CODES(code) ==
    IF code = PyStr(<< "A" >>) THEN PyStr(<< "F", "r", "e", "e" >>)
    ELSE IF code = PyStr(<< "B" >>) THEN PyStr(<< "B", "a", "c", "k" >>)
    ELSE IF code = PyStr(<< "C" >>) THEN PyStr(<< "B", "r", "e", "a", "s", "t" >>)
    ELSE IF code = PyStr(<< "D" >>) THEN PyStr(<< "F", "l", "y" >>)
    ELSE IF code = PyStr(<< "E" >>) THEN PyStr(<< "M", "e", "d", "l", "e", "y" >>)
    ELSE IF code = PyStr(<< "F" >>) THEN PyStr(<< "1", "m" >>)
    ELSE IF code = PyStr(<< "G" >>) THEN PyStr(<< "3", "m" >>)
    ELSE IF code = PyStr(<< "H" >>) THEN PyStr(<< "1", "0", "m" >>)
    ELSE PyStr(<< "U", "n", "k", "n", "o", "w", "n" >>)

MeetColumns ==
    { "meet_name", "facility_name", "meet_start_date", "meet_end_date" }

\* row with the cells of more where more has the column.
RowMerge(row, more) ==
    [c \in (DOMAIN row) \cup (DOMAIN more) |->
        IF c \in DOMAIN more THEN more[c] ELSE row[c]]

\* The four meet columns of a MeetInfo.
MeetCells(info) == [c \in MeetColumns |-> PyStr(info[c])]

\* The value a statement computes: a name bound to The({ e }) stands for
\* the object the statement made, made once.
The(values) == CHOOSE v \in values : TRUE

\* Hy3File.individual_results_to_df on self = the decoded file's athletes,
\* individual_results and meet_info.
individual_results_to_df(self) ==
    LET \* athlete_dict[key]: the last athlete with that mm_id
        has(people, key) ==
            \E k \in 1..Len(people) : people[k].dict["mm_id"] = key
        get(people, key) ==
            people[CHOOSE k \in 1..Len(people) :
                      /\ people[k].dict["mm_id"] = key
                      /\ \A n \in 1..Len(people) :
                            people[n].dict["mm_id"] = key => n <= k]
        inner_results(people, result) ==
            LET both == RowMerge(to_dict(get(people, result.dict["mm_athlete_id"])),
                                 to_dict(result))
            IN  RowMerge(both, [c \in { "stroke" } |->
                                   STROKE_CODES(both["stroke_code"])])
        selected ==
            MeetColumns \cup
            { "mm_athlete_id", "usas_id", "first_name", "last_name", "gender",
              "team", "event_no", "stroke", "distance", "seed_time", "round",
              "time", "course", "heat", "lane", "heat_place", "overall_place",
              "backup_time_1", "backup_time_2", "reaction_time" }
    IN  The({
        IF \E k \in 1..Len(results) :
              ~has(people, results[k].dict["mm_athlete_id"])
        THEN [ exc |-> "KeyError", ret |-> None ]
        ELSE IF self.meet_info = None
        THEN [ exc |-> "AttributeError", ret |-> None ]
        \* the column selection of a frame that has the meet columns only
        ELSE IF results = << >>
        THEN [ exc |-> "KeyError", ret |-> None ]
        ELSE [ exc |-> "none",
               ret |-> Some(
                   [ columns |-> selected,
                     rows |-> [k \in 1..Len(results) |->
                                 LET row == RowMerge(
                                                inner_results(people, results[k]),
                                                MeetCells(self.meet_info[1]))
                                 IN  [c \in selected |-> row[c]]] ]) ]
        : results \in { [k \in 1..Len(self.individual_results) |->
                           Object(self.individual_results[k],
                                  IndividualResultAttrs, FALSE)] },
          people \in { [k \in 1..Len(self.athletes) |->
                          Object(self.athletes[k], AthleteAttrs, FALSE)] } })

\* pd.merge(left, right, on=on, how="left") where no two rows of right
\* have the same key: every row of left, in order, with the cells of the
\* row of right that has its key, or NaN in right's columns.
LeftMerge(left, right, on) ==
    LET match(row) == { k \in 1..Len(right.rows) :
                           \A c \in on : right.rows[k][c] = row[c] }
        joined(row) ==
            IF match(row) = {}
            THEN RowMerge([c \in right.columns |-> NaN], row)
            ELSE RowMerge(row, right.rows[CHOOSE k \in match(row) : TRUE])
    IN  [ columns |-> left.columns \cup right.columns,
          rows |-> [k \in 1..Len(left.rows) |-> joined(left.rows[k])] ]

\* df.drop_duplicates(subset=subset): the first row of every key.
drop_duplicates(df, subset) ==
    LET kept == SelectSeq([k \in 1..Len(df.rows) |-> k],
                    LAMBDA k : \A j \in 1..(k - 1) :
                                  \E c \in subset : df.rows[j][c] # df.rows[k][c])
    IN  [ columns |-> df.columns,
          rows |-> [k \in 1..Len(kept) |-> df.rows[kept[k]]] ]

\* df[col] = cells, one cell per row
Assign(df, col, cells) ==
    [ columns |-> df.columns \cup { col },
      rows |-> [k \in 1..Len(df.rows) |->
                  [c \in df.columns \cup { col } |->
                      IF c = col THEN cells[k] ELSE df.rows[k][c]]] ]

\* df[columns]
Select(df, columns) ==
    [ columns |-> columns,
      rows |-> [k \in 1..Len(df.rows) |-> [c \in columns |-> df.rows[k][c]]] ]

_add_meet_info(self, df) ==
    IF self.meet_info # None
    THEN [ columns |-> df.columns \cup MeetColumns,
           rows |-> [k \in 1..Len(df.rows) |->
                       RowMerge(df.rows[k], MeetCells(self.meet_info[1]))] ]
    ELSE df

\* df["stroke_code"].map(self.STROKE_CODES).fillna("Unknown")
_add_stroke_names(df) ==
    IF "stroke_code" \in df.columns
    THEN Assign(df, "stroke",
                [k \in 1..Len(df.rows) |->
                    STROKE_CODES(df.rows[k]["stroke_code"])])
    ELSE df

\* pd.to_numeric(cell, errors="coerce")
to_numeric(cell) ==
    IF cell.kind = "str"
    THEN IF float_of_str(cell.s).exc = "none" THEN float_of_str(cell.s).ret
         ELSE NaN
    ELSE IF cell.kind = "None" THEN NaN
    ELSE cell

\* "display_" + col
display_col(col) ==
    IF col = "time" THEN "display_time"
    ELSE IF col = "seed_time" THEN "display_seed_time"
    ELSE IF col = "backup_time_1" THEN "display_backup_time_1"
    ELSE "display_backup_time_2"

\* exc: the exception an ss_to_display call ends with ("none": ret is df
\* with the time columns numeric and the display columns added).
_format_time_columns(df) ==
    LET time_cols == { "time", "seed_time", "backup_time_1", "backup_time_2" }
        present == time_cols \cap df.columns
        shown   == { display_col(c) : c \in present }
        source(d) == CHOOSE c \in present : display_col(c) = d
    IN  The({
        IF \E k \in 1..Len(df.rows) : \E c \in present :
              ss_to_display(numeric.rows[k][c]).exc # "none"
        THEN [ exc |-> "ValueError", ret |-> None ]
        ELSE [ exc |-> "none",
               ret |-> Some(
                   [ columns |-> df.columns \cup shown,
                     rows |-> [k \in 1..Len(df.rows) |->
                                 [c \in df.columns \cup shown |->
                                     IF c \in shown
                                     THEN PyStr(ss_to_display(
                                              numeric.rows[k][source(c)]).ret)
                                     ELSE numeric.rows[k][c]]] ]) ]
        : numeric \in { [ columns |-> df.columns,
                          rows |-> [k \in 1..Len(df.rows) |->
                                      [c \in df.columns |->
                                          IF c \in present
                                          THEN to_numeric(df.rows[k][c])
                                          ELSE df.rows[k][c]]] ] } })

_ensure_columns(df, columns) ==
    [ columns |-> df.columns \cup columns,
      rows |-> [k \in 1..Len(df.rows) |->
                  [c \in df.columns \cup columns |->
                      IF c \in df.columns THEN df.rows[k][c] ELSE PyNone]] ]

_reorder_columns(df, column_order) ==
    Select(df, column_order \cap df.columns)

\* The two _calculate_seed_ranks: rank_times on the first row of every key,
\* and the ranks merged back on the key.
_calculate_seed_ranks(df, key) ==
    LET required_cols == { "seed_time" } \cup key
    IN  IF required_cols \subseteq df.columns
        THEN The({
             IF ranked_times.exc # "none"
             THEN [ exc |-> ranked_times.exc, ret |-> None ]
             ELSE The({ [ exc |-> "none", ret |-> Some(LeftMerge(df, ranks, key)) ]
                        : ranks \in { Select(ranked_times.ret,
                                             key \cup { "seed_rank" }) } })
             : ranked_times \in
                 { rank_times(first, None, "seed_time", "seed_rank")
                   : first \in { drop_duplicates(df, key) } } })
        ELSE [ exc |-> "none",
               ret |-> Some(Assign(df, "seed_rank",
                                   [k \in 1..Len(df.rows) |-> NaN])) ]

IndividualResultTransformer_COLUMN_ORDER ==
    MeetColumns \cup
    { "mm_athlete_id", "usas_id", "first_name", "last_name", "gender", "team",
      "event_no", "stroke", "distance", "seed_time", "round", "time",
      "course", "heat", "lane", "heat_place", "overall_place", "points",
      "time_code", "backup_time_1", "backup_time_2", "reaction_time",
      "i_r_flag", "seed_rank", "display_time", "display_seed_time",
      "display_backup_time_1", "display_backup_time_2" }

\* IndividualResultTransformer(meet_info).transform(results, athletes);
\* athlete_dict is the values of the dict athletes, one Athlete per mm_id.
IndividualResultTransformer_transform(self, results, athlete_dict) ==
    IF results = << >>
    THEN [ exc |-> "none",
           ret |-> Some([ columns |-> IndividualResultTransformer_COLUMN_ORDER,
                          rows |-> << >> ]) ]
    ELSE IF \E k \in 1..Len(results) : ~results[k].model_dump
    THEN [ exc |-> "AttributeError", ret |-> None ]
    ELSE IF athlete_dict # << >> /\ \E k \in 1..Len(athlete_dict) : ~athlete_dict[k].model_dump
    THEN [ exc |-> "AttributeError", ret |-> None ]
    ELSE
    LET picked == { "usas_id", "first_name", "last_name", "gender", "team" }
        \* the statements after the merge, on its frame
        rest(merged) ==
            The({
            The({
            IF ranked.exc # "none" THEN [ exc |-> ranked.exc, ret |-> None ]
            ELSE The({
                 IF formatted.exc # "none"
                 THEN [ exc |-> formatted.exc, ret |-> None ]
                 ELSE The({
                      The({ [ exc |-> "none",
                              ret |-> Some(_reorder_columns(ensured,
                                        IndividualResultTransformer_COLUMN_ORDER)) ]
                            : ensured \in
                                { _ensure_columns(with_meet,
                                      IndividualResultTransformer_COLUMN_ORDER) } })
                      : with_meet \in { _add_meet_info(self, formatted.ret[1]) } })
                 : formatted \in { _format_time_columns(ranked.ret[1]) } })
            : ranked \in { _calculate_seed_ranks(named,
                               { "event_no", "mm_athlete_id" }) } })
            : named \in { _add_stroke_names(merged) } })
    IN  The({
        IF athlete_dict # << >>
        THEN The({ rest(merged)
                   : merged \in { LeftMerge(df_results, df_athletes,
                                            { "mm_athlete_id" }) } })
        ELSE rest(df_results)
        : df_results \in
            { [ columns |-> IndividualResultAttrs,
                rows |-> [k \in 1..Len(results) |-> results[k].dict] ] },
          df_athletes \in
            { [ columns |-> picked \cup { "mm_athlete_id" },
                rows |-> [k \in 1..Len(athlete_dict) |->
                            [c \in picked \cup { "mm_athlete_id" } |->
                                IF c = "mm_athlete_id"
                                THEN athlete_dict[k].dict["mm_id"]
                                ELSE athlete_dict[k].dict[c]]] ] } })

RelayResultTransformer_BASE_COLUMN_ORDER ==
    MeetColumns \cup
    { "gender", "team_abbr", "relay_team", "event_no", "stroke", "distance",
      "seed_time", "round", "time", "time_code", "course", "heat", "lane",
      "heat_place", "overall_place", "points", "backup_time_1",
      "backup_time_2", "backup_time_3", "touchpad_time", "i_r_flag" }

\* f"swimmer_{i}_mm_id" and f"reaction_time_{i}"
swimmer_col(n) ==
    << "swimmer_1_mm_id", "swimmer_2_mm_id", "swimmer_3_mm_id",
       "swimmer_4_mm_id", "swimmer_5_mm_id", "swimmer_6_mm_id",
       "swimmer_7_mm_id" >>[n]
reaction_col(n) ==
    << "reaction_time_1", "reaction_time_2", "reaction_time_3",
       "reaction_time_4", "reaction_time_5", "reaction_time_6",
       "reaction_time_7" >>[n]

\* RelayResultTransformer._transform_relay after model_dump returned.
_transform_relay(relay_result) ==
    LET data      == relay_result.dict
        athletes_ == data["relay_athletes"].items
        reactions == data["reaction_times"].items
        max_legs  == 4
        rest      == (DOMAIN data) \ { "relay_athletes", "reaction_times" }
        legs      == { swimmer_col(n) : n \in 1..max_legs }
                         \cup { reaction_col(n) : n \in 1..max_legs }
    IN  [c \in rest \cup legs |->
            IF c \in rest THEN data[c]
            ELSE LET n == CHOOSE m \in 1..max_legs :
                             c \in { swimmer_col(m), reaction_col(m) }
                 IN  IF c = swimmer_col(n)
                     THEN IF n <= Len(athletes_) THEN athletes_[n] ELSE PyNone
                     ELSE IF n <= Len(reactions) THEN reactions[n] ELSE PyNone]

_get_dynamic_columns(max_swimmers) ==
    { swimmer_col(n) : n \in 1..max_swimmers }
        \cup { reaction_col(n) : n \in 1..max_swimmers }

_get_dynamic_columns_from_df(df) ==
    { c \in _get_dynamic_columns(4) : c \in df.columns }

\* pd.DataFrame(rows): the columns are the keys of all the dicts, a key a
\* dict lacks is NaN in its row.
DataFrameOf(dicts) ==
    LET columns == UNION { DOMAIN dicts[k] : k \in 1..Len(dicts) }
    IN  [ columns |-> columns,
          rows |-> [k \in 1..Len(dicts) |->
                      [c \in columns |-> IF c \in DOMAIN dicts[k]
                                         THEN dicts[k][c] ELSE NaN]] ]

\* RelayResultTransformer(meet_info).transform(results)
RelayResultTransformer_transform(self, results) ==
    IF results = << >>
    THEN [ exc |-> "none",
           ret |-> Some([ columns |-> RelayResultTransformer_BASE_COLUMN_ORDER
                                          \cup _get_dynamic_columns(4)
                                          \cup { "seed_rank" },
                          rows |-> << >> ]) ]
    ELSE IF \E k \in 1..Len(results) : ~results[k].model_dump
    THEN [ exc |-> "AttributeError", ret |-> None ]
    ELSE
    The({
    The({
    The({
    IF ranked.exc # "none" THEN [ exc |-> ranked.exc, ret |-> None ]
    ELSE The({
         IF formatted.exc # "none"
         THEN [ exc |-> formatted.exc, ret |-> None ]
         ELSE The({
              LET final_cols ==
                      RelayResultTransformer_BASE_COLUMN_ORDER
                          \cup _get_dynamic_columns_from_df(with_meet)
                          \cup { "seed_rank", "display_time",
                                 "display_seed_time" }
              IN  The({ [ exc |-> "none",
                          ret |-> Some(_reorder_columns(ensured, final_cols)) ]
                        : ensured \in
                            { _ensure_columns(with_meet, final_cols) } })
              : with_meet \in { _add_meet_info(self, formatted.ret[1]) } })
         : formatted \in { _format_time_columns(ranked.ret[1]) } })
    : ranked \in { _calculate_seed_ranks(named,
                       { "event_no", "team_abbr", "relay_team" }) } })
    : named \in { _add_stroke_names(df) } })
    : df \in { DataFrameOf([k \in 1..Len(results) |->
                               _transform_relay(results[k])]) } })

\* The most results of a projected result sequence.
MaxResults == 2

\* Entry and result lines of a file, as pairs.
EntryPairs ==
    { << e1, e2 >> :
        e1 \in { E1Line(<< "1", "1" >>, "A", << "5" >>),
                 E1Line(<< "2", "2" >>, "B", << >>) },
        e2 \in { E2Line("P", << "5", "0", ".", "1" >>, << "7" >>),
                 E2Line("F", << "4", "9", ".", "2" >>, << >>) } }

RECURSIVE Flatten(_)
Flatten(seqs) ==
    IF seqs = << >> THEN << >> ELSE Head(seqs) \o Flatten(Tail(seqs))

\* What __init__ leaves of a file of the complete header, team lines,
\* athlete lines, and pairs of an entry line and its result line.
Decoded(team_lines, athlete_lines, pairs) ==
    LET team == IF team_lines = << >> THEN None
                ELSE Some(_parse_team_info(team_lines[Len(team_lines)]))
    IN  [ file_contents |-> << A1Line, B1Line, B2Line >> \o team_lines \o athlete_lines
                                \o Flatten(pairs),
          meet_info |-> Some(MeetInfoOf(A1Line, B1Line, B2Line)),
          teams |-> [k \in 1..Len(team_lines) |-> _parse_team_info(team_lines[k])],
          athletes |-> [k \in 1..Len(athlete_lines) |->
                          _parse_athlete_info(athlete_lines[k], team)],
          individual_results |->
              [k \in 1..Len(pairs) |->
                  DictMerge(_parse_event_entry(pairs[k][1]),
                            _parse_individual_result(pairs[k][2]))],
          current_team |-> team,
          current_event_entry |->
              IF pairs = << >> THEN None
              ELSE Some(_parse_event_entry(pairs[Len(pairs)][1])) ]

DecodedFiles ==
    { Decoded(t, a, p) :
        t \in SeqsUpTo({ C1Line(<< "A", "A", "A" >>, << "O", "N", "E" >>) }, 1),
        a \in SeqsUpTo({ D1Line(<< "1", "1" >>, << "D", "O", "E" >>),
                         D1Line(<< "2", "2" >>, << "R", "A", "Y" >>) }, 2),
        p \in SeqsUpTo(EntryPairs, MaxResults) }

\* The object with its seed time held as a float (None when the text is
\* not a number) when as_float, as the str otherwise.
SeedTime(obj, as_float) ==
    IF ~as_float THEN obj
    ELSE [ obj EXCEPT !.dict =
             [c \in DOMAIN @ |->
                 IF c # "seed_time" THEN @[c]
                 ELSE IF float_of_str(@[c].s).exc = "none"
                 THEN float_of_str(@[c].s).ret ELSE PyNone] ]

\* Keyword arguments of IndividualResult: the decoded pairs, and one with
\* another seed time.
IndividualKwargs ==
    { DictMerge(_parse_event_entry(p[1]), _parse_individual_result(p[2])) :
        p \in EntryPairs }
    \cup { [ DictMerge(_parse_event_entry(p[1]), _parse_individual_result(p[2]))
               EXCEPT !.seed_time = << "4", "9", ".", "5" >> ] :
           p \in { << E1Line(<< "2", "2" >>, "B", << >>),
                      E2Line("F", << "4", "9", ".", "2" >>, << >>) >> } }

\* The Athlete dicts handed to transform, as their values.
AthleteLists ==
    LET doe == _parse_athlete_info(D1Line(<< "1", "1" >>, << "D", "O", "E" >>),
                   Some(_parse_team_info(
                       C1Line(<< "A", "A", "A" >>, << "O", "N", "E" >>))))
        ray == _parse_athlete_info(D1Line(<< "2", "2" >>, << "R", "A", "Y" >>),
                   None)
    IN  { << >>, << doe >>, << ray >>, << doe, ray >> }

\* Keyword arguments of RelayResult: two decoded triplets with a seed time,
\* one with the blank seed time of the relay lines above, and one whose
\* roster has five legs.
RelayKwargs ==
    LET one == DictMerge(DictMerge(
                   _parse_f1_line(F1Line(<< "A", "A", "A" >>, "A")),
                   _parse_f2_line(F2Line("P", << "9", "0", ".", "1" >>))),
                   _parse_f3_line(F3Line(<< "1", "1" >>, << "2", "2" >>,
                                         << "3", "3" >>, << "4", "4" >>)))
        two == DictMerge(DictMerge(
                   _parse_f1_line(F1Line(<< "B", "B" >>, "B")),
                   _parse_f2_line(F2Line("F", << "8", "9", ".", "2" >>))),
                   _parse_f3_line(F3Line(<< "1", "1" >>, << >>,
                                         << "3", "3" >>, << "4", "4" >>)))
    IN  { [ one EXCEPT !.seed_time = << "9", "0", ".", "5" >> ],
          [ two EXCEPT !.seed_time = << "8", "9", ".", "5" >> ],
          one,
          [ one EXCEPT !.seed_time = << "9", "0", ".", "5" >>,
                       !.relay_athletes = @ \o << << "5", "5" >> >>,
                       !.reaction_times = @ \o << << "0", ".", "3" >> >> ] }

\* The calls of the transformers: objects of the classes of hyparse/objects
\* (no model_dump) or objects with a model_dump that returns their
\* attributes, with the seed times as strs or as floats.
TransformCalls ==
    { [ fn |-> "IndividualResultTransformer.transform",
        self |-> [ meet_info |-> m ],
        results |-> [k \in 1..Len(r) |->
                       SeedTime(Object(r[k], IndividualResultAttrs, d), f)],
        athletes |-> [k \in 1..Len(a) |-> Object(a[k], AthleteAttrs, d)] ] :
      m \in { None, Some(MeetInfoOf(A1Line, B1Line, B2Line)) },
      r \in SeqsUpTo(IndividualKwargs, MaxResults),
      a \in AthleteLists, d \in BOOLEAN, f \in BOOLEAN }
    \cup
    { [ fn |-> "RelayResultTransformer.transform",
        self |-> [ meet_info |-> m ],
        results |-> [k \in 1..Len(r) |->
                       SeedTime(Object(r[k], RelayResultAttrs, d), f)] ] :
      m \in { None, Some(MeetInfoOf(A1Line, B1Line, B2Line)) },
      r \in SeqsUpTo(RelayKwargs, MaxResults),
      d \in BOOLEAN, f \in BOOLEAN }

\* Either a decoded file whose individual_results_to_df is called, or a
\* call of a transformer.
InitProjection ==
    /\ \/ \E hy3 \in DecodedFiles :
            /\ file_contents = hy3.file_contents
            /\ pc = "done"
            /\ i = Len(file_contents) + 1
            /\ meet_info = hy3.meet_info
            /\ teams = hy3.teams
            /\ athletes = hy3.athletes
            /\ individual_results = hy3.individual_results
            /\ current_team = hy3.current_team
            /\ current_event_entry = hy3.current_event_entry
            /\ call = Some([ fn |-> "individual_results_to_df" ])
       \/ /\ call \in { Some(c) : c \in TransformCalls }
          /\ file_contents = << >>
          /\ pc = "call"
          /\ i = 1
          /\ meet_info = None
          /\ teams = << >>
          /\ athletes = << >>
          /\ individual_results = << >>
          /\ current_team = None
          /\ current_event_entry = None
    /\ ret = None
    /\ raised = "none"
    /\ relay_results = << >>
    /\ f1_data = None
    /\ f2_data = None
    /\ warnings = << >>
    /\ errors = << >>
    /\ all_valid = TRUE
    /\ structure = None

\* hy3_file.individual_results_to_df() is called and ends.
individual_results_to_df_call ==
    /\ pc = "done" /\ raised = "none" /\ ret = None
    /\ call # None /\ call[1].fn = "individual_results_to_df"
    /\ ret' = Some(individual_results_to_df(
                  [ athletes |-> athletes,
                    individual_results |-> individual_results,
                    meet_info |-> meet_info ]))
    /\ UNCHANGED << call, pc, decode, validation >>

\* IndividualResultTransformer(meet_info).transform(results, athletes) is
\* called and ends.
IndividualResultTransformer_transform_call ==
    /\ pc = "call" /\ call # None
    /\ call[1].fn = "IndividualResultTransformer.transform"
    /\ ret' = Some(IndividualResultTransformer_transform(
                  call[1].self, call[1].results, call[1].athletes))
    /\ pc' = "returned"
    /\ UNCHANGED << call, decode, validation >>

\* RelayResultTransformer(meet_info).transform(results) is called and ends.
RelayResultTransformer_transform_call ==
    /\ pc = "call" /\ call # None
    /\ call[1].fn = "RelayResultTransformer.transform"
    /\ ret' = Some(RelayResultTransformer_transform(call[1].self, call[1].results))
    /\ pc' = "returned"
    /\ UNCHANGED << call, decode, validation >>

NextProjection ==
    \/ individual_results_to_df_call
    \/ IndividualResultTransformer_transform_call
    \/ RelayResultTransformer_transform_call

ProjectionSpec == InitProjection /\ [][NextProjection]_vars

--------------------------------------------------------------------------
(* Vocabulary of the properties: which lines a pass has dealt with, and    *)
(* what the record-assembly rules say is pending when a line arrives.      *)

Tag(line) == Slice(line, 0, 2)

PassNo(p) ==
    CASE p = "checksum" -> 1 [] p = "meet_info" -> 2 [] p = "teams" -> 3
      [] p = "athletes" -> 4 [] p = "individual" -> 5 [] p = "relay" -> 6
      [] p = "done" -> 7

\* The positions whose loop iteration pass p has completed.
Done(p) ==
    IF PassNo(pc) > PassNo(p) THEN 1..Len(file_contents)
    ELSE IF pc = p THEN 1..(i - 1)
    ELSE {}

\* Those, and the position whose iteration raised.
Attempted(p) ==
    Done(p) \cup (IF pc = p /\ raised # "none" /\ i <= Len(file_contents)
                  THEN {i} ELSE {})

TaggedIn(S, tag) == { j \in S : Tag(file_contents[j]) = tag }

\* The last position before j whose tag is one of tags; 0 when there is none.
LastBefore(j, tags) ==
    LET at == { k \in 1..(j - 1) : Tag(file_contents[k]) \in tags }
    IN  IF at = {} THEN 0 ELSE CHOOSE k \in at : \A m \in at : m <= k

E1 == << "E", "1" >>
E2 == << "E", "2" >>
F1 == << "F", "1" >>
F2 == << "F", "2" >>
F3 == << "F", "3" >>
C1 == << "C", "1" >>
D1 == << "D", "1" >>

\* An individual entry is pending at line j: the last entry or result line
\* before j is an entry line (no result line has consumed it).
EntryPendingAt(j) ==
    LET k == LastBefore(j, {E1, E2})
    IN  k # 0 /\ Tag(file_contents[k]) = E1

\* A relay is pending at line j: an entry line came before j and no roster
\* line has completed it since.
RelayPendingAt(j) ==
    LET k == LastBefore(j, {F1, F3})
    IN  k # 0 /\ Tag(file_contents[k]) = F1

\* The relay triplets of the file: an F1, an F2 and an F3 line, in that
\* order, with no other F1/F2/F3 line between them.
Triplets ==
    { t \in (1..Len(file_contents)) \X (1..Len(file_contents))
              \X (1..Len(file_contents)) :
        /\ Tag(file_contents[t[1]]) = F1
        /\ Tag(file_contents[t[2]]) = F2
        /\ Tag(file_contents[t[3]]) = F3
        /\ LastBefore(t[3], {F1, F2, F3}) = t[2]
        /\ LastBefore(t[2], {F1, F2, F3}) = t[1] }

--------------------------------------------------------------------------
(* line_specs.py: the documented field positions, by tag and field name *)

LINE_SPECS ==
    [ A1 |-> [ line_id |-> << 0, 2 >>, result_type |-> << 2, 4 >>,
               mm_version |-> << 44, 58 >>,
               date_file_created |-> << 58, 68 >> ],
      B1 |-> [ line_id |-> << 0, 2 >>, meet_name |-> << 2, 47 >>,
               facility_name |-> << 47, 92 >>,
               meet_start_date |-> << 92, 100 >>,
               meet_end_date |-> << 100, 108 >>,
               elevation |-> << 116, 121 >> ],
      B2 |-> [ line_id |-> << 0, 2 >>, course |-> << 98, 99 >> ],
      C1 |-> [ line_id |-> << 0, 2 >>, team_abbreviation |-> << 2, 7 >>,
               full_team_name |-> << 7, 37 >>,
               team_short_name |-> << 37, 53 >>, team_lsc |-> << 53, 55 >> ],
      D1 |-> [ line_id |-> << 0, 2 >>, gender |-> << 2, 3 >>,
               mm_id |-> << 3, 8 >>, last_name |-> << 8, 28 >>,
               first_name |-> << 28, 48 >>, nick_name |-> << 48, 68 >>,
               usas_id |-> << 69, 85 >> ],
      E1 |-> [ line_id |-> << 0, 2 >>, mm_athlete_id |-> << 3, 8 >>,
               distance |-> << 15, 21 >>, stroke_code |-> << 21, 22 >>,
               event_no |-> << 38, 42 >>, seed_time |-> << 42, 50 >>,
               points |-> << 61, 68 >> ],
      E2 |-> [ line_id |-> << 0, 2 >>, round |-> << 2, 3 >>,
               time |-> << 3, 11 >>, course |-> << 11, 12 >>,
               time_code |-> << 12, 15 >>, heat |-> << 20, 24 >>,
               lane |-> << 25, 27 >>, heat_place |-> << 26, 29 >>,
               overall_place |-> << 29, 33 >>, points |-> << 33, 36 >>,
               backup_time_1 |-> << 36, 44 >>,
               backup_time_2 |-> << 45, 52 >>,
               reaction_time |-> << 83, 87 >> ],
      F1 |-> [ line_id |-> << 0, 2 >>, team_abbr |-> << 2, 7 >>,
               relay_team |-> << 7, 8 >>, gender |-> << 12, 13 >>,
               distance |-> << 17, 21 >>, stroke_code |-> << 21, 22 >>,
               event_no |-> << 38, 42 >>, seed_time |-> << 43, 50 >>,
               points |-> << 61, 68 >> ],
      F2 |-> [ line_id |-> << 0, 2 >>, round |-> << 2, 3 >>,
               time |-> << 3, 11 >>, course |-> << 11, 12 >>,
               time_code |-> << 12, 15 >>, heat |-> << 20, 24 >>,
               lane |-> << 25, 27 >>, heat_place |-> << 26, 29 >>,
               overall_place |-> << 29, 33 >>, points |-> << 33, 36 >>,
               backup_time_1 |-> << 36, 44 >>,
               backup_time_2 |-> << 44, 52 >>,
               backup_time_3 |-> << 52, 60 >>,
               touchpad_time |-> << 65, 73 >>,
               reaction_time_1 |-> << 83, 87 >>,
               reaction_time_2 |-> << 87, 92 >>,
               reaction_time_3 |-> << 92, 97 >>,
               reaction_time_4 |-> << 97, 102 >> ],
      F3 |-> [ line_id |-> << 0, 2 >>, athlete_1_mm_id |-> << 3, 8 >>,
               athlete_2_mm_id |-> << 16, 21 >>,
               athlete_3_mm_id |-> << 29, 34 >>,
               athlete_4_mm_id |-> << 42, 47 >> ] ]

\* line[start:end].strip() for a field of the table
Extract(line, tag, name) ==
    Field(line, LINE_SPECS[tag][name][1], LINE_SPECS[tag][name][2])

\* The log holds exactly one entry for each of the lines at positions S.
LoggedOnce(S) ==
    \A j \in S :
        Cardinality({ w \in 1..Len(warnings) : warnings[w] = file_contents[j] })
            = Cardinality({ k \in S : file_contents[k] = file_contents[j] })

--------------------------------------------------------------------------
(* Properties *)

\* C1: each individual-entry line and each individual-result line
\* contributes to at most one IndividualResult: a result line consumes the
\* pending entry, so the results number at most the result lines that
\* arrived while an entry was pending (a further result line before a new
\* entry line creates none).
C1_OneResultPerEntry ==
    Len(individual_results)
        <= Cardinality({ j \in TaggedIn(Done("individual"), E2) :
                           EntryPendingAt(j) })

\* C2: every RelayResult combines the fields of one F1, one F2 and one F3
\* line that occur in that order with no other F1/F2/F3 line between them,
\* and no two RelayResults come from one triplet; so no RelayResult carries
\* result fields of a line that precedes its own entry line.
C2_RelayFromOneTriplet ==
    /\ \A k \in 1..Len(relay_results) :
          \E t \in Triplets :
             /\ t[3] \in Done("relay")
             /\ relay_results[k] =
                   DictMerge(DictMerge(_parse_f1_line(file_contents[t[1]]),
                                       _parse_f2_line(file_contents[t[2]])),
                             _parse_f3_line(file_contents[t[3]]))
    /\ Len(relay_results)
          <= Cardinality({ t \in Triplets : t[3] \in Done("relay") })

\* C3: an individual-result line that arrives when no entry line came before
\* it adds exactly one orphan error to the error log and no
\* IndividualResult, and the decode goes on with the next line.
C3_OrphanResultLogged ==
    LET orphans == { j \in TaggedIn(Attempted("individual"), E2) :
                       LastBefore(j, {E1}) = 0 }
    IN  orphans # {} =>
          /\ raised = "none"
          /\ LoggedOnce(orphans)
          /\ Len(individual_results)
                <= Cardinality(TaggedIn(Done("individual"), E2) \ orphans)

\* C4: a relay-roster line that arrives when no relay is pending appends no
\* RelayResult and records exactly one orphan error, the decode going on;
\* so the RelayResults never outnumber the relay-entry lines processed.
C4_OrphanRosterLogged ==
    LET orphans == { j \in TaggedIn(Attempted("relay"), F3) :
                       ~RelayPendingAt(j) }
    IN  /\ orphans # {} =>
              /\ raised = "none"
              /\ LoggedOnce(orphans)
        /\ Len(relay_results) <= Cardinality(TaggedIn(Done("relay"), F1))

\* C5: for every individual-entry line immediately followed by an
\* individual-result line, the IndividualResult appended holds every field
\* of the entry line and every field of the result line, and for a field
\* name both lines have (points) the result line's value.
C5_MergedFieldsResultWins ==
    \A j \in TaggedIn(Done("individual"), E2) :
        (j > 1 /\ Tag(file_contents[j - 1]) = E1) =>
            \E k \in 1..Len(individual_results) :
                LET r == individual_results[k]
                IN  /\ \A f \in (DOMAIN LINE_SPECS.E2) \ {"line_id"} :
                          /\ f \in DOMAIN r
                          /\ r[f] = Extract(file_contents[j], "E2", f)
                    /\ \A f \in (DOMAIN LINE_SPECS.E1)
                                   \ (DOMAIN LINE_SPECS.E2) :
                          /\ f \in DOMAIN r
                          /\ r[f] = Extract(file_contents[j - 1], "E1", f)

\* C6: an athlete line processed while no team line came before it creates
\* no Athlete and records exactly one orphan error, the decode going on;
\* hence every Athlete in the collection has its team set.
C6_OrphanAthleteDiscarded ==
    LET orphans == { j \in TaggedIn(Attempted("athletes"), D1) :
                       LastBefore(j, {C1}) = 0 }
    IN  /\ \A k \in 1..Len(athletes) : athletes[k].team # None
        /\ orphans # {} => raised = "none" /\ LoggedOnce(orphans)
        /\ Len(athletes)
              <= Cardinality(TaggedIn(Done("athletes"), D1) \ orphans)

\* C7: every Athlete's team is the abbreviation of the last team line before
\* the athlete's own line, and a Team of the collection has that
\* abbreviation.
C7_AthleteTeamResolves ==
    \A k \in 1..Len(athletes) :
        \E j \in TaggedIn(Done("athletes"), D1) :
            LET c == LastBefore(j, {C1})
            IN  /\ c # 0
                /\ athletes[k] =
                      _parse_athlete_info(file_contents[j],
                          Some(_parse_team_info(file_contents[c])))
                /\ \E t \in 1..Len(teams) :
                      Some(teams[t].team_abbreviation) = athletes[k].team

\* C8: the Team collection holds at most one Team per abbreviation, and the
\* Team held for an abbreviation is the one built from the last team line
\* that carries it.
C8_OneTeamPerAbbreviation ==
    /\ \A a, b \in 1..Len(teams) :
          teams[a].team_abbreviation = teams[b].team_abbreviation => a = b
    /\ \A a \in 1..Len(teams) :
          \E j \in TaggedIn(Done("teams"), C1) :
             /\ teams[a] = _parse_team_info(file_contents[j])
             /\ \A m \in TaggedIn(Done("teams"), C1) :
                   m > j => _parse_team_info(file_contents[m]).team_abbreviation
                               # teams[a].team_abbreviation

\* C9: at every point of a decode the exposed MeetInfo is absent or built
\* from an A1, a B1 and a B2 line of the file; a file without a B2 line
\* never has a MeetInfo.
C9_MeetInfoCompleteOrAbsent ==
    /\ meet_info # None =>
          \E a \in TaggedIn(1..Len(file_contents), << "A", "1" >>),
             b \in TaggedIn(1..Len(file_contents), << "B", "1" >>),
             c \in TaggedIn(1..Len(file_contents), << "B", "2" >>) :
                /\ HasIndex(file_contents[c], 98)
                /\ meet_info = Some(MeetInfoOf(file_contents[a],
                                               file_contents[b],
                                               file_contents[c]))
    /\ TaggedIn(1..Len(file_contents), << "B", "2" >>) = {} =>
          meet_info = None

\* C9 witness: the decode of a file with an A1 and a B1 line but no B2 line
\* has been through _extract_meet_info, and no MeetInfo is exposed.
C9_Witness ==
    /\ pc = "meet_info" /\ raised # "none"
    /\ TaggedIn(1..Len(file_contents), << "A", "1" >>) # {}
    /\ TaggedIn(1..Len(file_contents), << "B", "1" >>) # {}
    /\ TaggedIn(1..Len(file_contents), << "B", "2" >>) = {}
    /\ meet_info = None

\* The lines with every checksum recomputed, and what the team pass and the
\* meet-info pass make of a line list.
Repaired(lines) == [j \in 1..Len(lines) |-> Seal(DropLast2(lines[j]))]
TeamsOf(lines) ==
    LET c1 == SelectSeq(lines, LAMBDA l : startswith(l, C1))
    IN  [k \in 1..Len(c1) |-> _parse_team_info(c1[k])]

\* C10: a decode of lines some of which carry a wrong checksum does not
\* abort: each such line adds exactly one entry to the error log, and the
\* entities assembled (checked here for MeetInfo and Teams) are those of
\* the same lines with correct checksums.
C10_LenientChecksumLogged ==
    LET bad == { j \in Attempted("checksum") :
                   _calculate_checksum(file_contents[j])
                       # Last2(file_contents[j]) }
    IN  bad # {} =>
          /\ raised = "none"
          /\ LoggedOnce(bad)
          /\ pc = "done" =>
                /\ meet_info = _extract_meet_info(Repaired(file_contents)).ret
                /\ teams = TeamsOf(Repaired(file_contents))

\* The positions of the lines whose last two characters are not their
\* checksum.
BadChecksums ==
    { j \in 1..Len(file_contents) :
        _calculate_checksum(file_contents[j]) # Last2(file_contents[j]) }

\* C11: a decode that raises on a checksum failure (the only behaviour
\* Hy3File has), given lines some of which fail their checksum, never gets
\* past the first failing line: while the checksum pass runs every line
\* before the current one has passed and nothing is assembled, the failure
\* the pass ends with is the checksum failure of the line it stands on, and
\* the pass hands over to the first extraction only when no line fails.
C11_StrictAbortsFirst ==
    /\ pc = "checksum" =>
          /\ entities = << None, << >>, << >>, << >>, << >> >>
          /\ \A j \in 1..(i - 1) :
                _calculate_checksum(file_contents[j]) = Last2(file_contents[j])
          /\ raised # "none" =>
                /\ raised = "ValueError"
                /\ _calculate_checksum(file_contents[i])
                       # Last2(file_contents[i])
    /\ pc = "meet_info" => BadChecksums = {}

\* C11 witness: two lines fail their checksum, the first of them is not the
\* file's first line, and the decode has aborted on it.
C11_Witness ==
    /\ Cardinality(BadChecksums) >= 2
    /\ 1 \notin BadChecksums
    /\ pc = "checksum" /\ raised = "ValueError"
    /\ i \in BadChecksums

\* C12: the decode of any finite line sequence (the empty one, one without
\* header lines, one with orphan result or roster lines, one with short
\* lines) runs to completion: no exception ever leaves it.
C12_LenientRunsToCompletion == raised = "none"

--------------------------------------------------------------------------
(* Properties of the validator *)

\* The positions validate_lines has dealt with.
ValidatedLines ==
    IF pc = "validate_lines" THEN 1..(i - 1) ELSE 1..Len(file_contents)

\* The documented algorithm's sum over the first k characters of content:
\* characters at odd 0-based positions count twice, the others once.
RECURSIVE WeightedCodePoints(_, _)
WeightedCodePoints(content, k) ==
    IF k = 0 THEN 0
    ELSE WeightedCodePoints(content, k - 1)
            + (IF (k - 1) % 2 = 1 THEN 2 ELSE 1) * ord(content[k])

C14_ShortLineTooShort ==
    \A j \in Attempted("checksum") :
        Len(file_contents[j]) < 2 =>
            /\ validate_line(file_contents[j], j) =
                  [ exc |-> "none", is_valid |-> FALSE,
                    error_message |->
                        << "Line too short", Len(file_contents[j]) >> ]
            /\ ~(pc = "checksum" /\ raised = "ValueError" /\ i = j)
            /\ j \notin Done("checksum")

\* C15: for every content string c, the empty one included, c followed by
\* the checksum computed for c passes validate_line, and the checksum
\* computed does not depend on the line's last two characters.
C15_ChecksumRoundTrip ==
    \A j \in ValidatedLines :
        LET c == file_contents[j]
            line == c \o calculate_checksum(c \o << "0", "0" >>).ret
        IN  /\ validate_line(line, j) =
                  [ exc |-> "none", is_valid |-> TRUE, error_message |-> << >> ]
            /\ calculate_checksum(line) = calculate_checksum(c \o << "9", "9" >>)
            /\ (Len(c) >= 2 /\ calculate_checksum(c).ret = Last2(c)) =>
                  \A k \in 1..Len(errors) : errors[k][1] # j

\* C15 witness: the empty content and a line that ends in its own checksum
\* have been validated, the latter without an error.
C15_Witness ==
    /\ pc = "validated"
    /\ file_contents = << << >>, << "G", "1", " ", "7", "9", "1" >> >>
    /\ Len(errors) = 1 /\ errors[1][1] = 1

\* C16: for every line, the empty one included, calculate_checksum returns
\* exactly two decimal digits and validate_line returns a result with its
\* message; neither raises, and validation leaves the decode's state as it
\* was.
C16_ChecksumTotal ==
    /\ raised = "none"
    /\ entities = << None, << >>, << >>, << >>, << >> >>
    /\ \A j \in 1..Len(file_contents) :
          LET line == file_contents[j]
              c == calculate_checksum(line)
              r == validate_line(line, j)
          IN  /\ c.exc = "none"
              /\ Len(c.ret) = 2
              /\ \A k \in 1..2 : \E d \in 1..10 : c.ret[k] = Digits[d]
              /\ r.exc = "none"
              /\ r.is_valid \in BOOLEAN
              /\ r.is_valid <=> r.error_message = << >>

\* C16 witness: the empty line and a line of one character have been
\* through validate_lines, which returned.
C16_Witness ==
    /\ pc = "validated"
    /\ file_contents = << << >>, << "Z" >> >>
    /\ Len(errors) = 2

\* C17: validate_file_structure returns valid exactly when the line list is
\* non-empty, its first line's two-character tag is A1 and some line has
\* the tag B1 (a first line shorter than two characters has no A1 tag); and
\* its list of violations is empty exactly when it returns valid.
C17_StructureValidIff ==
    structure # None =>
        LET r == structure[1]
            expected ==
                /\ file_contents # << >>
                /\ Slice(file_contents[1], 0, 2) = << "A", "1" >>
                /\ \E k \in 1..Len(file_contents) :
                      Slice(file_contents[k], 0, 2) = << "B", "1" >>
        IN  /\ r.is_valid <=> expected
            /\ r.error_messages = << >> <=> r.is_valid

--------------------------------------------------------------------------
(* Properties of lines outside the table *)

\* The lines whose tag is supported, in file order.
Supported(lines) ==
    SelectSeq(lines, LAMBDA l : is_line_type_supported(Slice(l, 0, 2)))

\* C18: a loop iteration over a line whose two-character tag is not one of
\* the ten of LINE_SPECS changes no slot (current team, pending entry,
\* pending relay), no entity collection and no log, and raises nothing;
\* and the MeetInfo extracted from the lines is the one extracted from the
\* lines without those of unsupported tags.
C18_UnknownTagSkipped ==
    /\ [][(/\ pc \in { "teams", "athletes", "individual", "relay" }
           /\ i <= Len(file_contents)
           /\ ~is_line_type_supported(Tag(file_contents[i])))
          => /\ UNCHANGED << entities, locals, warnings >>
             /\ raised' = "none"
             /\ pc' = pc /\ i' = i + 1]_vars
    /\ [](pc = "teams" =>
             meet_info = _extract_meet_info(Supported(file_contents)).ret)

\* C18 witness: an individual result was assembled from an E1 and an E2
\* line with a line of an unsupported tag between the two.
C18_Witness ==
    /\ pc = "done"
    /\ Len(individual_results) = 1
    /\ \E j \in 1..Len(file_contents) :
          /\ ~is_line_type_supported(Tag(file_contents[j]))
          /\ LastBefore(j, {E1}) # 0
          /\ \E k \in (j + 1)..Len(file_contents) :
                Tag(file_contents[k]) = E2

\* C19: the athlete-id sequence of every RelayResult consists of exactly
\* the non-empty athlete-id slots of its roster line, in slot order (four
\* slots with one blank give three ids, none of them empty).
C19_RosterFiltersEmpty ==
    \A k \in 1..Len(relay_results) :
        \E j \in TaggedIn(Done("relay"), F3) :
            LET line == file_contents[j]
                slots == << Extract(line, "F3", "athlete_1_mm_id"),
                            Extract(line, "F3", "athlete_2_mm_id"),
                            Extract(line, "F3", "athlete_3_mm_id"),
                            Extract(line, "F3", "athlete_4_mm_id") >>
            IN  relay_results[k].relay_athletes =
                    SelectSeq(slots, LAMBDA a : a # << >>)

\* C20: extracting the fields of a line with a supported tag and at least
\* two characters never fails (no IndexError), however short the line; each
\* field is the trimmed substring line[start:end] cut at the line's end,
\* the empty string when start lies beyond it (checked on the Teams built).
C20_ShortLineExtracts ==
    /\ raised # "IndexError"
    /\ \A j \in TaggedIn(Done("teams"), C1) :
          \E k \in 1..Len(teams) :
              \A f \in (DOMAIN LINE_SPECS.C1) \ {"line_id"} :
                  teams[k][f] = Extract(file_contents[j], "C1", f)

--------------------------------------------------------------------------
(* rank_times and ss_to_display, UtilsSpec *)

\* C22: rank_times gives each row whose value is numeric the rank 1 + the
\* number of rows of the same group whose value is strictly smaller: equal
\* values share the lowest rank of their tie, the rank after a tie skips
\* (48, 50, 50, 52 gives 1, 2, 2, 4), and the rows of other groups have no
\* influence.
C22_CompetitionRank ==
    (pc = "returned" /\ call[1].fn = "rank_times" /\ ret[1].exc = "none") =>
        LET c    == call[1]
            cols == IF c.group_cols = None THEN << "event_no" >>
                    ELSE c.group_cols[1]
            group(k) ==
                { j \in 1..Len(c.df.rows) :
                    \A g \in 1..Len(cols) :
                        c.df.rows[j][cols[g]] = c.df.rows[k][cols[g]] }
        IN  \A k \in 1..Len(c.df.rows) :
                LET mine == c.df.rows[k][c.rank_col]
                    rank == ret[1].ret.rows[k][c.out_col]
                IN  mine.kind = "float" =>
                        /\ rank.kind = "float"
                        /\ rank.milli = 1000 * (1 + Cardinality(
                              { j \in group(k) :
                                  LET theirs == c.df.rows[j][c.rank_col]
                                  IN  /\ theirs.kind = "float"
                                      /\ theirs.milli < mine.milli }))

\* Event 1 holds 50, 50, 52 and event 2 holds 48: the ranks are 1, 1, 3, 1.
C22_Witness ==
    /\ pc = "returned" /\ call[1].fn = "rank_times" /\ ret[1].exc = "none"
    /\ Len(call[1].df.rows) = 4
    /\ [k \in 1..4 |-> call[1].df.rows[k]["event_no"].milli]
           = << 1000, 1000, 1000, 2000 >>
    /\ [k \in 1..4 |-> call[1].df.rows[k]["seed_time"]]
           = << PyFloat(50000), PyFloat(50000), PyFloat(52000), PyFloat(48000) >>
    /\ [k \in 1..4 |-> ret[1].ret.rows[k]["rank"].milli]
           = << 1000, 1000, 3000, 1000 >>

\* C23: in rank_times every row whose value is missing (NaN) receives an
\* undefined (missing) rank, never a number such as 0 or the count of the
\* numeric rows plus one, and the numeric rows are ranked as if the missing
\* rows were absent.
C23_MissingRankUndefined ==
    (pc = "returned" /\ call[1].fn = "rank_times" /\ ret[1].exc = "none") =>
        \A k \in 1..Len(call[1].df.rows) :
            call[1].df.rows[k][call[1].rank_col].kind = "nan" =>
                ret[1].ret.rows[k][call[1].out_col].kind = "nan"

\* C24: ss_to_display is total and returns, in this order, 'Invalid' for an
\* input that does not convert to a number, 'NaN' for NaN, 'Invalid' for a
\* negative number, and otherwise, with m = floor(seconds / 60) and
\* s = seconds mod 60, s to two decimals when m = 0 and else m, ':' and s
\* zero-padded to width 5 with two decimals; rounding never carries into m
\* (59.995 gives '60.00').
C24_DisplayTotal ==
    (pc = "returned" /\ call[1].fn = "ss_to_display") =>
        LET r == ret[1]
            converted == float(call[1].seconds)
            x == converted.ret
            Invalid == << "I", "n", "v", "a", "l", "i", "d" >>
        IN  /\ r.exc = "none"
            /\ IF converted.exc # "none" THEN r.ret = Invalid
               ELSE IF x.kind = "nan" THEN r.ret = << "N", "a", "N" >>
               ELSE IF x.kind = "float" /\ x.milli < 0 THEN r.ret = Invalid
               ELSE IF x.kind = "float"
               THEN LET m == x.milli \div 60000
                        \* s in hundredths, the half rounded up
                        s == ((x.milli % 60000) + 5) \div 10
                        two == << Digits[((s \div 10) % 10) + 1],
                                  Digits[(s % 10) + 1] >>
                    IN  IF m = 0
                        THEN r.ret = str(s \div 100) \o << "." >> \o two
                        ELSE r.ret = str(m) \o << ":" >>
                                 \o (IF s < 1000 THEN << "0" >> ELSE << >>)
                                 \o str(s \div 100) \o << "." >> \o two
               ELSE TRUE

--------------------------------------------------------------------------
(* The projections, ProjectionSpec *)

\* C21: the individual projection emits exactly one row per
\* IndividualResult, in the order of the results; a result whose athlete
\* id is not a key of the Athlete collection still yields its row, with the
\* joined athlete fields empty: it is not dropped and the projection does
\* not fail.
C21_OneRowPerResult ==
    ( /\ call # None /\ ret # None
      /\ call[1].fn \in { "individual_results_to_df",
                          "IndividualResultTransformer.transform" } )
    =>  LET \* the athlete ids of the results projected, in order, and the
            \* ids of the Athlete collection
            ids   == IF call[1].fn = "individual_results_to_df"
                     THEN [k \in 1..Len(individual_results) |->
                              PyStr(individual_results[k].mm_athlete_id)]
                     ELSE [k \in 1..Len(call[1].results) |->
                              call[1].results[k].dict["mm_athlete_id"]]
            known == IF call[1].fn = "individual_results_to_df"
                     THEN { PyStr(athletes[k].mm_id) : k \in 1..Len(athletes) }
                     ELSE { call[1].athletes[k].dict["mm_id"] :
                              k \in 1..Len(call[1].athletes) }
        IN  /\ ret[1].exc = "none"
            /\ Len(ret[1].ret[1].rows) = Len(ids)
            /\ \A k \in 1..Len(ids) :
                  LET row == ret[1].ret[1].rows[k]
                  IN  /\ row["mm_athlete_id"] = ids[k]
                      /\ ids[k] \notin known =>
                            \A c \in { "usas_id", "first_name", "last_name",
                                       "gender", "team" } :
                                row[c].kind \in { "None", "nan" }

\* C25: the relay projection has the column pairs swimmer_i_mm_id and
\* reaction_time_i for i = 1..N, N being the largest roster length
\* observed among the results projected (it may exceed 4), and the
\* swimmer_i_mm_id of a row is the i-th athlete id of its result: no id of
\* a roster is left out.
C25_EveryLegProjected ==
    ( /\ call # None /\ ret # None
      /\ call[1].fn = "RelayResultTransformer.transform" )
    =>  /\ ret[1].exc = "none"
        /\ \A k \in 1..Len(call[1].results) :
              LET roster == call[1].results[k].dict["relay_athletes"].items
              IN  \A n \in 1..Len(roster) :
                      /\ { swimmer_col(n), reaction_col(n) }
                             \subseteq ret[1].ret[1].columns
                      /\ ret[1].ret[1].rows[k][swimmer_col(n)] = roster[n]

\* C30: in both projections the seed-time column handed to rank_times is
\* already numeric (the conversion happens before the ranking), so the
\* projection of a non-empty result sequence whose seed times are numeric
\* strings completes and gives each row a seed rank, instead of ending
\* with rank_times' TypeError.
C30_SeedRankedAfterConversion ==
    ( /\ call # None /\ ret # None
      /\ call[1].fn \in { "IndividualResultTransformer.transform",
                          "RelayResultTransformer.transform" }
      /\ call[1].results # << >>
      /\ \A k \in 1..Len(call[1].results) :
            LET seed == call[1].results[k].dict["seed_time"]
            IN  seed.kind = "str" /\ float_of_str(seed.s).exc = "none"
                    /\ float_of_str(seed.s).ret.kind = "float" )
    => /\ ret[1].exc = "none"
       /\ \A k \in 1..Len(ret[1].ret[1].rows) :
             ret[1].ret[1].rows[k]["seed_rank"].kind = "float"

--------------------------------------------------------------------------
(* The decode again, Spec *)

\* C26: a team line whose abbreviation is empty adds no Team, records
\* exactly one missing-identifying-field error and leaves the current team
\* unchanged, so that the athletes after it are stamped with the last team
\* that had a non-empty abbreviation.
C26_BlankTeamSkipped ==
    LET \* the team lines of S whose abbreviation field is empty
        blank(S) ==
            { j \in TaggedIn(S, C1) :
                _parse_team_info(file_contents[j]).team_abbreviation = << >> }
        \* the position of the athlete line the k-th Athlete was built from
        line_of(k) ==
            CHOOSE j \in TaggedIn(Done("athletes"), D1) :
                Cardinality(TaggedIn(1..j, D1)) = k
    IN  /\ \A t \in 1..Len(teams) : teams[t].team_abbreviation # << >>
        /\ LoggedOnce(blank(Done("teams")))
        /\ \A k \in 1..Len(athletes) :
              LET j     == line_of(k)
                  named == TaggedIn(1..j, C1) \ blank(1..j)
              IN  named # {} =>
                      athletes[k].team =
                          Some(_parse_team_info(file_contents[
                                   CHOOSE c \in named : \A m \in named : m <= c])
                               .team_abbreviation)

\* C27: when building an entity from a line fails, the decode records one
\* error with the line's number and raw content, adds no entity, clears the
\* pending slot(s) of that line's record, and goes on with the next line;
\* no field of the failed record appears in a later entity.
C27_FailedBuildLoggedAndCleared ==
    LET \* the lines a pass came to whose entity or dict could not be built
        failed ==
            { j \in TaggedIn(Attempted("athletes"), D1) :
                _parse_athlete_infoRaises(file_contents[j]) # "none" }
            \cup { j \in TaggedIn(Attempted("individual"), E1) :
                     _parse_event_entryRaises(file_contents[j]) # "none" }
            \cup { j \in TaggedIn(Attempted("individual"), E2) :
                     _parse_individual_resultRaises(file_contents[j]) # "none" }
            \cup { j \in TaggedIn(Attempted("relay"), F1) :
                     _parse_f1_lineRaises(file_contents[j]) # "none" }
            \cup { j \in TaggedIn(Attempted("relay"), F2) :
                     _parse_f2_lineRaises(file_contents[j]) # "none" }
    IN  failed # {} =>
            /\ raised = "none"
            /\ LoggedOnce(failed)
            /\ (pc = "individual" /\ (i - 1) \in failed)
                   => current_event_entry = None
            /\ (pc = "relay" /\ (i - 1) \in failed)
                   => f1_data = None /\ f2_data = None

\* C28: when two individual-entry lines arrive with no result line between
\* them, the earlier entry is dropped, without an error and without an
\* IndividualResult, and the next result line is merged with the later
\* entry only.
C28_LaterEntryWins ==
    \A j \in TaggedIn(Done("individual"), E2) :
        LET later   == LastBefore(j, {E1, E2})
            earlier == IF later = 0 THEN 0 ELSE LastBefore(later, {E1, E2})
            n       == Cardinality(TaggedIn(1..j, E2))
        IN  ( /\ later # 0 /\ Tag(file_contents[later]) = E1
              /\ earlier # 0 /\ Tag(file_contents[earlier]) = E1 )
            => /\ Len(individual_results)
                     = Cardinality(TaggedIn(Done("individual"), E2))
               /\ individual_results[n] =
                      DictMerge(_parse_event_entry(file_contents[later]),
                                _parse_individual_result(file_contents[j]))
               /\ \A w \in 1..Len(warnings) :
                      warnings[w] # file_contents[earlier]

\* A decoded file with the entry of athlete 11, the entry of athlete 22 and
\* a result line: its one IndividualResult is athlete 22's.
C28_Witness ==
    /\ pc = "done"
    /\ \E j \in 3..Len(file_contents) :
          /\ Tag(file_contents[j]) = E2
          /\ Tag(file_contents[j - 1]) = E1
          /\ Tag(file_contents[j - 2]) = E1
          /\ _parse_event_entry(file_contents[j - 2]).mm_athlete_id = << "1", "1" >>
          /\ _parse_event_entry(file_contents[j - 1]).mm_athlete_id = << "2", "2" >>
    /\ Len(individual_results) = 1
    /\ individual_results[1].mm_athlete_id = << "2", "2" >>
    /\ individual_results[1].stroke_code = << "B" >>

\* C29: in every RelayResult the reaction-time sequence has as many entries
\* as the athlete-id sequence, also when roster slots are blank.
C29_ReactionsMatchRoster ==
    \A k \in 1..Len(relay_results) :
        Len(relay_results[k].reaction_times)
            = Len(relay_results[k].relay_athletes)

\* A RelayResult decoded from a roster line whose second slot is blank.
C29_Witness ==
    /\ pc = "done"
    /\ \E k \in 1..Len(relay_results) :
          /\ Len(relay_results[k].relay_athletes) = 4
          /\ relay_results[k].relay_athletes[2] = << >>
          /\ relay_results[k].relay_athletes[3] # << >>
          /\ relay_results[k].reaction_times[2] = << >>
          /\ relay_results[k].reaction_times[1] # << >>

==========================================================================
